---- MODULE Spec2Model ----
(***************************************************************************)
(* AgroVue, src/App.js: the local fallback advisor (getLocalFallback), the *)
(* remote advisor (getAIReply), the text chat (AIAdvisor) and the voice     *)
(* assistant (VoiceAssistant).  Each has its own specification; the        *)
(* variables of the others stay at rest in it.                             *)
(*                                                                         *)
(* A JavaScript string is modelled as the sequence of its UTF-16 code      *)
(* units.  An ASCII code unit is the one-character string of that          *)
(* character; any other code unit is written "U+XXXX".  Chars turns an     *)
(* ASCII literal into such a sequence.                                     *)
(***************************************************************************)
EXTENDS Integers, Sequences, FiniteSets, TLC

VARIABLES
  msg,            \* getLocalFallback argument: the question as typed
  crop,           \* getLocalFallback argument: the crop selected in the UI
  pc,             \* "idle" before the call, "done" after it returned
  q,              \* local q: the normalized question
  scores,         \* local scores: intent -> number of matching literals
  intent,         \* local intent
  mentionedCrop,  \* local mentionedCrop: the resolved crop
  reply,          \* the returned string
  userMessage,          \* getAIReply argument: the question
  conversationHistory,  \* getAIReply argument: the prior turns
  aiPc,                 \* the position of the call of getAIReply
  messages,             \* local messages: the list sent to the endpoint
  response,             \* what fetch resolved to: status and body
  err,                  \* message of the error caught at line 158
  aiResult,             \* what the promise of getAIReply settled to
  chatLoaded,     \* AIAdvisor: FALSE while msgs is null (loading)
  msgs,           \* AIAdvisor state msgs: the displayed conversation
  stored,         \* the value stored under "AgroVue_chat", <<>> when none
  typing,         \* AIAdvisor state typing
  sends,          \* the calls of AIAdvisor.send, each with its locals
  phase,          \* VoiceAssistant state phase
  transcript,     \* VoiceAssistant state transcript
  voiceResponse,  \* VoiceAssistant state response
  error,          \* VoiceAssistant state error
  recognizers,    \* the SpeechRecognition objects created, by lifecycle
                  \* state; recognRef.current is the last one
  processingRef,  \* VoiceAssistant processingRef.current
  pendingVoice,   \* calls of getAIReply by processQuestion not yet settled
  speaking,       \* an utterance is being spoken
  kv,             \* window.storage: key -> the stored string, if any
  storeOp,        \* the last call of save or load and what it settled to
  users,          \* the parsed value under "AgroVue_users"
  session,        \* the parsed value under "AgroVue_session", if any
  storedProfile,  \* the parsed value under "AgroVue_profile", if any
  user,           \* App state user
  loggedIn        \* App state loggedIn

\* the locals of getLocalFallback
fallbackVars == <<msg, pc, q, scores, intent, mentionedCrop, reply>>

\* the locals of getAIReply
aiVars == <<userMessage, conversationHistory, aiPc, messages, response, err, aiResult>>

\* the state of AIAdvisor and of the chat log
chatVars == <<chatLoaded, msgs, stored, typing, sends>>

\* the state of VoiceAssistant
voiceVars == <<phase, transcript, voiceResponse, error, recognizers, processingRef, pendingVoice, speaking>>

\* window.storage and the persist helpers
storeVars == <<kv, storeOp>>

\* the accounts, the session and the App state they restore
sessionVars == <<users, session, storedProfile, user, loggedIn>>

vars == <<fallbackVars, crop, aiVars, chatVars, voiceVars, storeVars, sessionVars>>

Chars(s) == [i \in 1..Len(s) |-> SubSeq(s, i, i)]

\* a promise that has not settled
Pending == [state |-> "pending", value |-> <<>>]

\* no response received
NoResponse == [status |-> 0, body |-> [t |-> "none"]]

\* getAIReply is not called
AIRest ==
  /\ userMessage = <<>>
  /\ conversationHistory = <<>>
  /\ aiPc = "rest"
  /\ messages = <<>>
  /\ response = NoResponse
  /\ err = <<>>
  /\ aiResult = Pending

\* AIAdvisor is not mounted
ChatRest ==
  /\ chatLoaded = FALSE
  /\ msgs = <<>>
  /\ stored = <<>>
  /\ typing = FALSE
  /\ sends = <<>>

\* a key without a value
NoEntry == [present |-> FALSE, value |-> <<>>]

\* the keys of the store explored for save and load
Keys == {"AgroVue_chat", "AgroVue_profile"}

\* save and load are not called
StoreRest ==
  /\ kv = [k \in Keys |-> NoEntry]
  /\ storeOp = [op |-> "none"]

\* a profile by the fields that tell profiles apart; a profile object
\* without a username key reads NoUsername
NoUsername == <<"undefined">>

\* DEFAULT_USER, line 1363
DEFAULT_USER == [name |-> Chars("AgroVue User"), district |-> <<>>, username |-> <<>>]

\* the keys of the users table that are explored
UserKeys == {Chars("asha"), Chars("ravi")}

\* users[key] of an empty table
NoUser == [registered |-> FALSE, passwordHash |-> <<>>, profile |-> DEFAULT_USER]

\* nothing under "AgroVue_session"
NoSession == [present |-> FALSE, username |-> <<>>]

\* nothing under "AgroVue_profile"
NoProfile == [present |-> FALSE, value |-> DEFAULT_USER]

\* a fresh store and the App before anyone signed in
SessionRest ==
  /\ users = [k \in UserKeys |-> NoUser]
  /\ session = NoSession
  /\ storedProfile = NoProfile
  /\ user = DEFAULT_USER
  /\ loggedIn = FALSE

\* VoiceAssistant is not mounted
VoiceRest ==
  /\ phase = "idle"
  /\ transcript = <<>>
  /\ voiceResponse = <<>>
  /\ error = <<>>
  /\ recognizers = <<>>
  /\ processingRef = FALSE
  /\ pendingVoice = 0
  /\ speaking = FALSE

(***************************************************************************)
(* Bounds of the explored inputs.                                          *)
(***************************************************************************)
MaxWords == 2

(***************************************************************************)
(* String primitives of the JavaScript runtime used by the advisor.        *)
(***************************************************************************)
UpperCaseLetters == Chars("ABCDEFGHIJKLMNOPQRSTUVWXYZ")
LowerCaseLetters == Chars("abcdefghijklmnopqrstuvwxyz")

\* mutant: toLowerCase that leaves every code unit as it is
LowerChar_Identity(c) == c

\* String.prototype.toLowerCase, one code unit
LowerChar(c) ==
  IF \E i \in 1..Len(UpperCaseLetters) : UpperCaseLetters[i] = c
  THEN LowerCaseLetters[CHOOSE i \in 1..Len(UpperCaseLetters) : UpperCaseLetters[i] = c]
  ELSE c

\* String.prototype.toLowerCase
ToLowerCase(s) == [i \in 1..Len(s) |-> LowerChar(s[i])]

\* the character class [?।!,] of the first replace (the danda is U+0964)
PunctuationClass == {"?", "U+0964", "!", ","}

\* .replace(/[?।!,]/g, " ")
ReplacePunctuation(s) ==
  [i \in 1..Len(s) |-> IF s[i] \in PunctuationClass THEN " " ELSE s[i]]

\* the character class \s, restricted to the code units of the alphabet
WhiteSpace == {" ", "\t", "\n", "U+00A0"}

\* .replace(/\s+/g, " "): every maximal run of white space becomes one space
CollapseWhiteSpace(s) ==
  LET f[i \in 0..Len(s)] ==
        IF i = 0 THEN <<>>
        ELSE IF s[i] \in WhiteSpace
             THEN IF i > 1 /\ s[i-1] \in WhiteSpace
                  THEN f[i-1]
                  ELSE Append(f[i-1], " ")
             ELSE Append(f[i-1], s[i])
  IN f[Len(s)]

\* mutant: only the leading white space removed (trimStart)
Trim_Start(s) ==
  LET solid == {i \in 1..Len(s) : s[i] \notin WhiteSpace}
  IN IF solid = {} THEN <<>>
     ELSE SubSeq(s, CHOOSE i \in solid : \A j \in solid : i <= j, Len(s))

\* String.prototype.trim
Trim(s) ==
  LET solid == {i \in 1..Len(s) : s[i] \notin WhiteSpace}
  IN IF solid = {} THEN <<>>
     ELSE SubSeq(s, CHOOSE i \in solid : \A j \in solid : i <= j,
                    CHOOSE i \in solid : \A j \in solid : i >= j)

\* String.prototype.includes
Includes(s, t) ==
  \E i \in 1..(Len(s) - Len(t) + 1) :
     /\ Len(t) > 0 => s[i] = t[1]
     /\ SubSeq(s, i, i + Len(t) - 1) = t

\* the two values of a number-typed expression that are not non-negative
\* integers: a property that is missing (undefined), and NaN
Undefined == -1
NaN == -2

\* Number -> String for a non-negative integer, undefined and NaN
RECURSIVE NumToStr(_)
NumToStr(n) ==
  IF n = Undefined THEN Chars("undefined")
  ELSE IF n = NaN THEN Chars("NaN")
  ELSE IF n < 10 THEN <<Chars("0123456789")[n + 1]>>
  ELSE Append(NumToStr(n \div 10), Chars("0123456789")[(n % 10) + 1])

\* Math.round(b * 1.2) for a non-negative integer b; NaN for undefined
Round12(b) == IF b = Undefined THEN NaN ELSE (b * 12 + 5) \div 10

(***************************************************************************)
(* Static tables.                                                          *)
(***************************************************************************)
\* App.js 35
CROPS == <<Chars("Wheat"), Chars("Rice"), Chars("Maize"), Chars("Tomato"), Chars("Onion"), Chars("Potato"), Chars("Soybean"), Chars("Cotton"), Chars("Sugarcane"), Chars("Chilli")>>

\* App.js 38-49 (icon is not read by the advisor; vol is kept in hundredths)
CROP_META ==
     Chars("Wheat") :> [season |-> Chars("Rabi"), harvest |-> Chars("Mar-Apr"), base |-> 2200, vol |-> 6]
  @@ Chars("Rice") :> [season |-> Chars("Kharif"), harvest |-> Chars("Oct-Nov"), base |-> 3100, vol |-> 5]
  @@ Chars("Maize") :> [season |-> Chars("Kharif"), harvest |-> Chars("Sep-Oct"), base |-> 1800, vol |-> 8]
  @@ Chars("Tomato") :> [season |-> Chars("Year-round"), harvest |-> Chars("Oct & Mar"), base |-> 1500, vol |-> 35]
  @@ Chars("Onion") :> [season |-> Chars("Rabi/Kharif"), harvest |-> Chars("Nov & Mar"), base |-> 1200, vol |-> 40]
  @@ Chars("Potato") :> [season |-> Chars("Rabi"), harvest |-> Chars("Jan-Feb"), base |-> 900, vol |-> 25]
  @@ Chars("Soybean") :> [season |-> Chars("Kharif"), harvest |-> Chars("Oct-Nov"), base |-> 4500, vol |-> 10]
  @@ Chars("Cotton") :> [season |-> Chars("Kharif"), harvest |-> Chars("Nov-Jan"), base |-> 6200, vol |-> 7]
  @@ Chars("Sugarcane") :> [season |-> Chars("Year-round"), harvest |-> Chars("Oct-Mar"), base |-> 380, vol |-> 3]
  @@ Chars("Chilli") :> [season |-> Chars("Rabi"), harvest |-> Chars("Feb-Mar"), base |-> 8500, vol |-> 30]

\* App.js 50-61
CROP_TIPS ==
     Chars("Wheat") :> Chars("Prices typically rise post-harvest export season (Apr") \o <<"U+2013">> \o Chars("Jun). Best to store until May.")
  @@ Chars("Rice") :> Chars("Sell 30") \o <<"U+2013">> \o Chars("40% immediately post-harvest, store rest for Jan") \o <<"U+2013">> \o Chars("Feb when prices rise 15") \o <<"U+2013">> \o Chars("20%.")
  @@ Chars("Tomato") :> Chars("High volatility crop. Monitor daily prices. Consider contract farming for stability.")
  @@ Chars("Onion") :> Chars("Cold storage can yield 25") \o <<"U+2013">> \o Chars("35% premium. April") \o <<"U+2013">> \o Chars("July is the best selling window.")
  @@ Chars("Potato") :> Chars("Store in cold storage. Market opens up in summer (May") \o <<"U+2013">> \o Chars("Jul) with 20% higher prices.")
  @@ Chars("Maize") :> Chars("Poultry feed demand drives prices. Nov") \o <<"U+2013">> \o Chars("Jan tends to be the best selling period.")
  @@ Chars("Soybean") :> Chars("Global soy prices heavily influence. Watch CBOT futures for export demand signals.")
  @@ Chars("Cotton") :> Chars("Textile industry demand peaks in Feb") \o <<"U+2013">> \o Chars("Mar. Hold for quality premium pricing.")
  @@ Chars("Sugarcane") :> Chars("Regulated FRP prices ensure minimum income. Sell early to avoid payment delays.")
  @@ Chars("Chilli") :> Chars("Export demand from Sri Lanka & Bangladesh boosts prices in May") \o <<"U+2013">> \o Chars("Jun. Dry for better margins.")

\* the default record of line 173
DefaultMeta ==
  [season |-> Chars("varies"), harvest |-> Chars("varies"), base |-> 2000, vol |-> 10]

\* keys that the object literals CROP_META and CROP_TIPS do not define but
\* inherit from Object.prototype; the inherited values are functions, which
\* are truthy
InheritedKeys == {Chars("constructor"), Chars("toString")}

\* what the templates read from an inherited value: it has none of the
\* properties season, harvest, base, vol
InheritedMeta ==
  [season |-> Chars("undefined"), harvest |-> Chars("undefined"),
   base |-> Undefined, vol |-> Undefined]

\* String(f) of the inherited function under key c
InheritedTip(c) == Chars("function ") \o (IF c = Chars("constructor") THEN Chars("Object") ELSE c) \o Chars("() { [native code] }")

\* CROP_META[c] || dflt
MetaOr(c, dflt) ==
  IF c \in DOMAIN CROP_META THEN CROP_META[c]
  ELSE IF c \in InheritedKeys THEN InheritedMeta
  ELSE dflt

\* CROP_TIPS[c] || dflt
TipOr(c, dflt) ==
  IF c \in DOMAIN CROP_TIPS THEN CROP_TIPS[c]
  ELSE IF c \in InheritedKeys THEN InheritedTip(c)
  ELSE dflt

(***************************************************************************)
(* getLocalFallback: normalization, scoring, classification.               *)
(***************************************************************************)
\* lines 169-172
Normalize(m) == Trim(CollapseWhiteSpace(ReplacePunctuation(ToLowerCase(m))))

\* the property order of the object literal scores (lines 179-209), which is
\* the order Object.entries enumerates
IntentOrder ==
  <<"price", "sell", "msp", "storage", "weather", "profit", "disease",
    "fertilizer", "water", "loan", "export", "sowing", "harvest", "variety",
    "transport">>

Intents == {IntentOrder[i] : i \in 1..Len(IntentOrder)}

Keywords ==
  [ price |-> <<
        Chars("price"),
        Chars("rate"),
        Chars("bhav"),
        Chars("daam"),
        Chars("aaj"),
        Chars("today"),
        Chars("current"),
        Chars("kitna"),
        Chars("how much"),
        Chars("mandi"),
        Chars("market"),
        Chars("bhaav"),
        Chars("today price"),
        Chars("rate kya"),
        Chars("kya bhav"),
        Chars("what is price"),
        <<"U+0926", "U+093E", "U+092E">>,
        <<"U+092D", "U+093E", "U+0935">>,
        <<"U+0906", "U+091C">>,
        <<"U+0915", "U+093F", "U+0924", "U+0928", "U+093E">>,
        <<"U+0915", "U+094D", "U+092F", "U+093E">> \o Chars(" ") \o <<"U+092D", "U+093E", "U+0935">>,
        <<"U+092E", "U+0902", "U+0921", "U+0940">>
      >>,
    sell |-> <<
        Chars("sell"),
        Chars("selling"),
        Chars("bechna"),
        Chars("kab beche"),
        Chars("when sell"),
        Chars("best time"),
        Chars("kab"),
        Chars("timing"),
        Chars("hold"),
        Chars("store or sell"),
        Chars("should i sell"),
        Chars("kb bechu"),
        <<"U+0915", "U+092C">> \o Chars(" ") \o <<"U+092C", "U+0947", "U+091A", "U+0942", "U+0902">>,
        <<"U+092C", "U+0947", "U+091A", "U+0928", "U+093E">>,
        <<"U+0915", "U+092C">>
      >>,
    msp |-> <<
        Chars("msp"),
        Chars("minimum support"),
        Chars("government price"),
        Chars("sarkar"),
        Chars("scheme"),
        Chars("support price"),
        Chars("sarkari"),
        Chars("pm kisan"),
        Chars("pmkisan"),
        Chars("subsidy"),
        Chars("compensation"),
        <<"U+0938", "U+0930", "U+0915", "U+093E", "U+0930">>,
        <<"U+090F", "U+092E", "U+090F", "U+0938", "U+092A", "U+0940">>,
        <<"U+0938", "U+092E", "U+0930", "U+094D", "U+0925", "U+0928">> \o Chars(" ") \o <<"U+092E", "U+0942", "U+0932", "U+094D", "U+092F">>,
        <<"U+0938", "U+0930", "U+0915", "U+093E", "U+0930", "U+0940">>
      >>,
    storage |-> <<
        Chars("storage"),
        Chars("store"),
        Chars("cold storage"),
        Chars("godown"),
        Chars("rakhna"),
        Chars("warehouse"),
        Chars("bhndaran"),
        Chars("kitne din"),
        Chars("how long"),
        Chars("preserve"),
        <<"U+0930", "U+0916", "U+0928", "U+093E">>,
        <<"U+092D", "U+0902", "U+0921", "U+093E", "U+0930", "U+0923">>,
        <<"U+0917", "U+094B", "U+0926", "U+093E", "U+092E">>,
        <<"U+0920", "U+0902", "U+0921", "U+093E">>
      >>,
    weather |-> <<
        Chars("weather"),
        Chars("rain"),
        Chars("monsoon"),
        Chars("mausam"),
        Chars("barish"),
        Chars("drought"),
        Chars("flood"),
        Chars("climate"),
        Chars("temperature"),
        Chars("baarish"),
        Chars("season"),
        Chars("kharif"),
        Chars("rabi"),
        <<"U+092E", "U+094C", "U+0938", "U+092E">>,
        <<"U+092C", "U+093E", "U+0930", "U+093F", "U+0936">>,
        <<"U+0938", "U+0942", "U+0916", "U+093E">>,
        <<"U+092C", "U+093E", "U+0922", "U+093C">>
      >>,
    profit |-> <<
        Chars("profit"),
        Chars("income"),
        Chars("earning"),
        Chars("kamai"),
        Chars("fayda"),
        Chars("labh"),
        Chars("margin"),
        Chars("roi"),
        Chars("return"),
        Chars("kitna milega"),
        Chars("how much earn"),
        Chars("benefit"),
        <<"U+0915", "U+092E", "U+093E", "U+0908">>,
        <<"U+092B", "U+093E", "U+092F", "U+0926", "U+093E">>,
        <<"U+0932", "U+093E", "U+092D">>,
        <<"U+092E", "U+0941", "U+0928", "U+093E", "U+092B", "U+093E">>
      >>,
    disease |-> <<
        Chars("disease"),
        Chars("pest"),
        Chars("insect"),
        Chars("fungus"),
        Chars("virus"),
        Chars("spray"),
        Chars("medicine"),
        Chars("dawai"),
        Chars("kit"),
        Chars("rog"),
        Chars("keeda"),
        Chars("blight"),
        Chars("wilt"),
        Chars("rot"),
        Chars("yellow"),
        Chars("leaf"),
        <<"U+0915", "U+0940", "U+091F">>,
        <<"U+0930", "U+094B", "U+0917">>,
        <<"U+0926", "U+0935", "U+093E", "U+0908">>,
        <<"U+0915", "U+0940", "U+0921", "U+093C", "U+093E">>
      >>,
    fertilizer |-> <<
        Chars("fertilizer"),
        Chars("khad"),
        Chars("urea"),
        Chars("dap"),
        Chars("npk"),
        Chars("manure"),
        Chars("compost"),
        Chars("potash"),
        Chars("zinc"),
        Chars("nutrient"),
        <<"U+0916", "U+093E", "U+0926">>,
        <<"U+092F", "U+0942", "U+0930", "U+093F", "U+092F", "U+093E">>,
        <<"U+0921", "U+0940", "U+090F", "U+092A", "U+0940">>
      >>,
    water |-> <<
        Chars("water"),
        Chars("irrigation"),
        Chars("drip"),
        Chars("paani"),
        Chars("sinchai"),
        Chars("pump"),
        Chars("borewell"),
        Chars("canal"),
        <<"U+092A", "U+093E", "U+0928", "U+0940">>,
        <<"U+0938", "U+093F", "U+0902", "U+091A", "U+093E", "U+0908">>,
        <<"U+0928", "U+0939", "U+0930">>
      >>,
    loan |-> <<
        Chars("loan"),
        Chars("credit"),
        Chars("bank"),
        Chars("kcc"),
        Chars("kisan card"),
        Chars("finance"),
        Chars("interest"),
        Chars("byaj"),
        Chars("nabard"),
        Chars("insurance"),
        Chars("pmfby"),
        <<"U+092C", "U+0940", "U+092E", "U+093E">>,
        <<"U+090B", "U+0923">>,
        <<"U+0932", "U+094B", "U+0928">>,
        <<"U+092C", "U+094D", "U+092F", "U+093E", "U+091C">>,
        <<"U+0915", "U+093F", "U+0938", "U+093E", "U+0928">> \o Chars(" ") \o <<"U+0915", "U+093E", "U+0930", "U+094D", "U+0921">>
      >>,
    export |-> <<
        Chars("export"),
        Chars("foreign"),
        Chars("international"),
        Chars("demand"),
        Chars("global"),
        Chars("abroad"),
        <<"U+0935", "U+093F", "U+0926", "U+0947", "U+0936">>,
        <<"U+0928", "U+093F", "U+0930", "U+094D", "U+092F", "U+093E", "U+0924">>
      >>,
    sowing |-> <<
        Chars("sow"),
        Chars("sowing"),
        Chars("plant"),
        Chars("seed"),
        Chars("baai"),
        Chars("ugana"),
        Chars("nursery"),
        Chars("transplant"),
        <<"U+092C", "U+0941", "U+0935", "U+093E", "U+0908">>,
        <<"U+092C", "U+0940", "U+091C">>,
        <<"U+0909", "U+0917", "U+093E", "U+0928", "U+093E">>,
        <<"U+0928", "U+0930", "U+094D", "U+0938", "U+0930", "U+0940">>
      >>,
    harvest |-> <<
        Chars("harvest"),
        Chars("cutting"),
        Chars("katai"),
        Chars("ready"),
        Chars("ripeness"),
        Chars("kab katna"),
        <<"U+0915", "U+091F", "U+093E", "U+0908">>,
        <<"U+0924", "U+0948", "U+092F", "U+093E", "U+0930">>
      >>,
    variety |-> <<
        Chars("variety"),
        Chars("type"),
        Chars("which type"),
        Chars("konsa"),
        Chars("breed"),
        Chars("hybrid"),
        Chars("variety konsi"),
        <<"U+0915", "U+093F", "U+0938", "U+094D", "U+092E">>,
        <<"U+0915", "U+094C", "U+0928">> \o Chars(" ") \o <<"U+0938", "U+0940">>,
        <<"U+0939", "U+093E", "U+0907", "U+092C", "U+094D", "U+0930", "U+093F", "U+0921">>
      >>,
    transport |-> <<
        Chars("transport"),
        Chars("truck"),
        Chars("vehicle"),
        Chars("freight"),
        Chars("delivery"),
        Chars("gaadi"),
        <<"U+0922", "U+0941", "U+0932", "U+093E", "U+0908">>,
        <<"U+0917", "U+093E", "U+0921", "U+093C", "U+0940">>
      >> ]

\* mutant: a score that counts occurrences instead of presence
Has_Frequency(qq, terms) ==
  LET occ(t) == Cardinality({p \in 1..(Len(qq) - Len(t) + 1) : SubSeq(qq, p, p + Len(t) - 1) = t})
      acc[i \in 0..Len(terms)] == IF i = 0 THEN 0 ELSE acc[i-1] + occ(terms[i])
  IN acc[Len(terms)]

\* line 176: has = (...terms) => terms.reduce((score, t) => score + (q.includes(t) ? 1 : 0), 0)
Has(qq, terms) ==
  LET acc[i \in 0..Len(terms)] ==
        IF i = 0 THEN 0
        ELSE acc[i-1] + (IF Includes(qq, terms[i]) THEN 1 ELSE 0)
  IN acc[Len(terms)]

\* lines 179-209
Scores(qq) == [i \in Intents |-> Has(qq, Keywords[i])]

\* Object.entries(scores): <<key, value>> pairs in property order
Entries(sc) == [i \in 1..Len(IntentOrder) |-> <<IntentOrder[i], sc[IntentOrder[i]]>>]

\* mutant: an insertion that also moves an element past its equals, so that
\* the last of the tied entries comes first
RECURSIVE InsertSorted_TiesLast(_, _)
InsertSorted_TiesLast(sorted, e) ==
  IF sorted = <<>> THEN <<e>>
  ELSE LET last == sorted[Len(sorted)]
       IN IF e[2] - last[2] >= 0
          THEN Append(InsertSorted_TiesLast(SubSeq(sorted, 1, Len(sorted) - 1), e), last)
          ELSE Append(sorted, e)

\* Array.prototype.sort with comparator cmp(a, b) < 0 meaning a before b;
\* the sort is stable (ECMAScript 2019): an insertion sort that moves an
\* element only past elements that must come after it
RECURSIVE InsertSorted(_, _)
InsertSorted(sorted, e) ==
  IF sorted = <<>> THEN <<e>>
  ELSE LET last == sorted[Len(sorted)]
       IN IF e[2] - last[2] > 0    \* comparator (a, b) => b[1] - a[1] with a = last, b = e
          THEN Append(InsertSorted(SubSeq(sorted, 1, Len(sorted) - 1), e), last)
          ELSE Append(sorted, e)

\* mutant: the entries left in property order
SortByScoreDesc_Unsorted(es) == es

SortByScoreDesc(es) ==
  LET f[i \in 0..Len(es)] == IF i = 0 THEN <<>> ELSE InsertSorted(f[i-1], es[i])
  IN f[Len(es)]

\* mutant: the last entry of the sorted array instead of the first
TopIntent_Last(sc) == SortByScoreDesc(Entries(sc))[Len(IntentOrder)]

\* line 212
TopIntent(sc) == SortByScoreDesc(Entries(sc))[1]

\* mutant: the top entry returned without the test of its score
Classify_NoZeroTest(sc) == SortByScoreDesc(Entries(sc))[1][1]

\* line 213
Classify(sc) == IF TopIntent(sc)[2] > 0 THEN TopIntent(sc)[1] ELSE "general"

\* mutant: the crop named first in the question instead of first in CROPS
MentionedCrop_ByPosition(qq, c) ==
  LET hits == {i \in 1..Len(CROPS) : Includes(qq, ToLowerCase(CROPS[i]))}
      at(i) == CHOOSE p \in 1..Len(qq) :
                 /\ SubSeq(qq, p, p + Len(CROPS[i]) - 1) = ToLowerCase(CROPS[i])
                 /\ \A r \in 1..(p - 1) : SubSeq(qq, r, r + Len(CROPS[i]) - 1) # ToLowerCase(CROPS[i])
  IN IF hits = {} THEN c
     ELSE CROPS[CHOOSE i \in hits : \A j \in hits : at(i) <= at(j)]

\* mutant: the first crop of CROPS when the question names none
MentionedCrop_DefaultFirst(qq, c) ==
  LET hits == {i \in 1..Len(CROPS) : Includes(qq, ToLowerCase(CROPS[i]))}
  IN IF hits = {} THEN CROPS[1]
     ELSE CROPS[CHOOSE i \in hits : \A j \in hits : i <= j]

\* line 216: CROPS.find(c => q.includes(c.toLowerCase())) || crop
MentionedCrop(qq, c) ==
  LET hits == {i \in 1..Len(CROPS) : Includes(qq, ToLowerCase(CROPS[i]))}
  IN IF hits = {} THEN c
     ELSE CROPS[CHOOSE i \in hits : \A j \in hits : i <= j]

(***************************************************************************)
(* The answer templates of the switch (lines 220-289).                     *)
(***************************************************************************)
\* App.js 222-222
Template_price(rawMsg, mc, cm, ct) ==
     <<"U+D83D", "U+DCCA">> \o Chars(" **")
  \o mc
  \o Chars(" Market Price**\n\nCurrent approximate price: ") \o <<"U+20B9">>
  \o NumToStr(cm.base)
  \o <<"U+2013", "U+20B9">>
  \o NumToStr(Round12(cm.base))
  \o Chars("/quintal\n(Varies by quality, location & season)\n\nBest harvest window: ")
  \o cm.harvest
  \o Chars(" | Season: ")
  \o cm.season
  \o Chars("\n\n") \o <<"U+D83D", "U+DD0D">> \o Chars(" Check live prices at:\n") \o <<"U+2022">> \o Chars(" eNAM portal ") \o <<"U+2192">> \o Chars(" enam.gov.in\n") \o <<"U+2022">> \o Chars(" AgMarkNet ") \o <<"U+2192">> \o Chars(" agmarknet.gov.in\n") \o <<"U+2022">> \o Chars(" Your local APMC mandi board\n\n")
  \o ct

\* App.js 225-225
Template_sell(rawMsg, mc, cm, ct) ==
     <<"U+D83D", "U+DCC5">> \o Chars(" **Best Time to Sell ")
  \o mc
  \o Chars("**\n\n")
  \o ct
  \o Chars("\n\nHarvest window: ")
  \o cm.harvest
  \o Chars(" | Season: ")
  \o cm.season
  \o Chars("\n\n") \o <<"U+D83D", "U+DCA1">> \o Chars(" Strategy: Avoid selling at peak harvest when supply floods the market. Wait 4") \o <<"U+2013">> \o Chars("6 weeks after harvest ") \o <<"U+2014">> \o Chars(" prices usually rise 10") \o <<"U+2013">> \o Chars("20%.\n\nCheck daily mandi rates on eNAM (enam.gov.in) before deciding.")

\* App.js 228-228
Template_msp(rawMsg, mc, cm, ct) ==
     <<"U+D83C", "U+DFDB", "U+FE0F">> \o Chars(" **MSP for ")
  \o mc
  \o Chars("**\n\nThe government sets MSP (Minimum Support Price) each season to protect farmers. To claim MSP:\n\n1") \o <<"U+FE0F", "U+20E3">> \o Chars(" Register on PM-KISAN portal ") \o <<"U+2192">> \o Chars(" pmkisan.gov.in\n2") \o <<"U+FE0F", "U+20E3">> \o Chars(" Documents needed: Khatauni (land record), Aadhaar, Bank passbook\n3") \o <<"U+FE0F", "U+20E3">> \o Chars(" Sell through your local APMC mandi or registered procurement center\n\n") \o <<"U+D83D", "U+DCDE">> \o Chars(" Kisan Helpline: 1800-180-1551 (Toll Free, 24x7)\n") \o <<"U+D83C", "U+DF10">> \o Chars(" agri.gov.in for current MSP notifications")

\* App.js 231-231
Template_storage(rawMsg, mc, cm, ct) ==
     <<"U+2744", "U+FE0F">> \o Chars(" **Storage Tips for ")
  \o mc
  \o Chars("**\n\n")
  \o ct
  \o Chars("\n\nStorage options:\n") \o <<"U+2022">> \o Chars(" Cold storage: Best for ")
  \o (IF mc = Chars("Potato") \/ mc = Chars("Onion")
        THEN Chars("25") \o <<"U+2013">> \o Chars("40% price premium")
        ELSE Chars("short-term holding"))
  \o Chars("\n") \o <<"U+2022">> \o Chars(" Join a local FPO for shared cold storage at lower cost/quintal\n") \o <<"U+2022">> \o Chars(" Proper drying & grading before storage reduces losses by 15") \o <<"U+2013">> \o Chars("20%\n\nAsk your district agriculture officer for nearest government cold storage facility.")

\* App.js 234-234
Template_weather(rawMsg, mc, cm, ct) ==
     <<"U+D83C", "U+DF26", "U+FE0F">> \o Chars(" **Weather Impact on ")
  \o mc
  \o Chars("**\n\nMonsoon effect: Deficit rainfall ") \o <<"U+2192">> \o Chars(" supply shortage ") \o <<"U+2192">> \o Chars(" price rise 15") \o <<"U+2013">> \o Chars("25%\nExcess rain ") \o <<"U+2192">> \o Chars(" crop damage ") \o <<"U+2192">> \o Chars(" short spike then crash\nCold wave ") \o <<"U+2192">> \o Chars(" affects ")
  \o (IF mc = Chars("Tomato") \/ mc = Chars("Potato")
        THEN Chars("quality & supply significantly")
        ELSE Chars("field operations"))
  \o Chars("\n\n") \o <<"U+D83D", "U+DEE1", "U+FE0F">> \o Chars(" Protect your income:\n") \o <<"U+2022">> \o Chars(" PMFBY crop insurance ") \o <<"U+2014">> \o Chars(" register before sowing season\n") \o <<"U+2022">> \o Chars(" IMD weather forecast ") \o <<"U+2192">> \o Chars(" imd.gov.in for your district")

\* App.js 237-237
Template_profit(rawMsg, mc, cm, ct) ==
     <<"U+D83D", "U+DCB0">> \o Chars(" **Profit Maximization ") \o <<"U+2014">> \o Chars(" ")
  \o mc
  \o Chars("**\n\n")
  \o ct
  \o Chars("\n\nTo increase your income from ")
  \o mc
  \o Chars(":\n") \o <<"U+2022">> \o Chars(" Time your sale correctly (")
  \o cm.harvest
  \o Chars(")\n") \o <<"U+2022">> \o Chars(" Reduce post-harvest losses with proper storage & grading\n") \o <<"U+2022">> \o Chars(" Sell directly to buyers via eNAM ") \o <<"U+2014">> \o Chars(" skip middlemen\n") \o <<"U+2022">> \o Chars(" Explore value addition: processing, packaging, or contract farming\n") \o <<"U+2022">> \o Chars(" Join an FPO to negotiate better prices in bulk")

\* App.js 240-240
Template_disease(rawMsg, mc, cm, ct) ==
     <<"U+D83C", "U+DF3F">> \o Chars(" **Disease & Pest Management ") \o <<"U+2014">> \o Chars(" ")
  \o mc
  \o Chars("**\n\nCommon issues in ")
  \o mc
  \o Chars(": fungal blight, aphids, leaf curl, root rot (varies by season).\n\nImmediate steps:\n1. Identify the pest/disease accurately before spraying\n2. Contact your Krishi Vigyan Kendra (KVK) ") \o <<"U+2014">> \o Chars(" free expert advice\n3. Use recommended pesticides at correct dosage\n\n") \o <<"U+D83D", "U+DCDE">> \o Chars(" Kisan Call Centre: 1800-180-1551\n") \o <<"U+D83C", "U+DF10">> \o Chars(" State agriculture department app for photo-based diagnosis\n\n") \o <<"U+26A0", "U+FE0F">> \o Chars(" Early treatment prevents 20") \o <<"U+2013">> \o Chars("30% yield loss.")

\* App.js 243-243
Template_fertilizer(rawMsg, mc, cm, ct) ==
     <<"U+D83C", "U+DF31">> \o Chars(" **Fertilizer Guide ") \o <<"U+2014">> \o Chars(" ")
  \o mc
  \o Chars("**\n\nGeneral recommendation for ")
  \o mc
  \o Chars(" (per acre):\n") \o <<"U+2022">> \o Chars(" Basal dose: DAP 50 kg + MOP 25 kg at sowing\n") \o <<"U+2022">> \o Chars(" Top dressing: Urea 25") \o <<"U+2013">> \o Chars("30 kg at 30 days after planting\n") \o <<"U+2022">> \o Chars(" Micronutrients: Zinc sulphate if soil is deficient\n\nAlways get a **soil test done** (free at KVK or for ") \o <<"U+20B9">> \o Chars("50 at district lab) before applying fertilizers ") \o <<"U+2014">> \o Chars(" saves 20") \o <<"U+2013">> \o Chars("30% fertilizer cost.\n\n") \o <<"U+D83D", "U+DCDE">> \o Chars(" Contact your local agriculture extension officer for crop-specific doses.")

\* mutant: the water template without the branch for Wheat
Template_water_NoWheat(rawMsg, mc, cm, ct) ==
     <<"U+D83D", "U+DCA7">> \o Chars(" **Irrigation for ")
  \o mc
  \o Chars("**\n\n")
  \o mc
  \o Chars(" water requirement: ")
  \o (IF mc = Chars("Rice")
        THEN Chars("High ") \o <<"U+2014">> \o Chars(" 1200") \o <<"U+2013">> \o Chars("2000 mm (flood or SRI method)")
        ELSE IF mc = Chars("Sugarcane")
        THEN Chars("High ") \o <<"U+2014">> \o Chars(" irrigate every 10") \o <<"U+2013">> \o Chars("15 days")
        ELSE IF mc = Chars("Tomato")
        THEN Chars("Frequent ") \o <<"U+2014">> \o Chars(" drip irrigation saves 40% water")
        ELSE Chars("Moderate ") \o <<"U+2014">> \o Chars(" check soil moisture before irrigating"))
  \o Chars("\n\n") \o <<"U+D83D", "U+DCA1">> \o Chars(" Drip/sprinkler irrigation saves 30") \o <<"U+2013">> \o Chars("50% water vs flood irrigation.\nApply for Pradhan Mantri Krishi Sinchai Yojana (PMKSY) subsidy on drip systems.")

\* App.js 246-251
Template_water(rawMsg, mc, cm, ct) ==
     <<"U+D83D", "U+DCA7">> \o Chars(" **Irrigation for ")
  \o mc
  \o Chars("**\n\n")
  \o mc
  \o Chars(" water requirement: ")
  \o (IF mc = Chars("Rice")
        THEN Chars("High ") \o <<"U+2014">> \o Chars(" 1200") \o <<"U+2013">> \o Chars("2000 mm (flood or SRI method)")
        ELSE IF mc = Chars("Sugarcane")
        THEN Chars("High ") \o <<"U+2014">> \o Chars(" irrigate every 10") \o <<"U+2013">> \o Chars("15 days")
        ELSE IF mc = Chars("Wheat")
        THEN Chars("Medium ") \o <<"U+2014">> \o Chars(" 4") \o <<"U+2013">> \o Chars("6 irrigations (CRI, tillering, jointing, grain fill)")
        ELSE IF mc = Chars("Tomato")
        THEN Chars("Frequent ") \o <<"U+2014">> \o Chars(" drip irrigation saves 40% water")
        ELSE Chars("Moderate ") \o <<"U+2014">> \o Chars(" check soil moisture before irrigating"))
  \o Chars("\n\n") \o <<"U+D83D", "U+DCA1">> \o Chars(" Drip/sprinkler irrigation saves 30") \o <<"U+2013">> \o Chars("50% water vs flood irrigation.\nApply for Pradhan Mantri Krishi Sinchai Yojana (PMKSY) subsidy on drip systems.")

\* App.js 254-254
Template_loan(rawMsg, mc, cm, ct) ==
     <<"U+D83C", "U+DFE6">> \o Chars(" **Farm Finance & Insurance**\n\n") \o <<"U+2022">> \o Chars(" **Kisan Credit Card (KCC):** Up to ") \o <<"U+20B9">> \o Chars("3 lakh at 4% effective interest (7% minus 3% subvention) ") \o <<"U+2014">> \o Chars(" apply at any bank\n") \o <<"U+2022">> \o Chars(" **PM-KISAN:** ") \o <<"U+20B9">> \o Chars("6,000/year direct to your bank ") \o <<"U+2192">> \o Chars(" pmkisan.gov.in\n") \o <<"U+2022">> \o Chars(" **PMFBY Crop Insurance:** Covers crop loss from drought, flood, pest ") \o <<"U+2014">> \o Chars(" enroll before sowing\n") \o <<"U+2022">> \o Chars(" **NABARD loans** via cooperative banks for farm infrastructure\n\n") \o <<"U+D83D", "U+DCDE">> \o Chars(" Bank helpline or nearest PACS for KCC application\n") \o <<"U+D83D", "U+DCDE">> \o Chars(" Kisan Helpline: 1800-180-1551")

\* App.js 257-261
Template_export(rawMsg, mc, cm, ct) ==
     <<"U+D83C", "U+DF0D">> \o Chars(" **Export Opportunities for ")
  \o mc
  \o Chars("**\n\n")
  \o ct
  \o Chars("\n\nKey export markets for Indian ")
  \o mc
  \o Chars(":\n")
  \o (IF mc = Chars("Chilli")
        THEN <<"U+2022">> \o Chars(" Sri Lanka, Bangladesh, UAE, Malaysia ") \o <<"U+2014">> \o Chars(" May") \o <<"U+2013">> \o Chars("Jun is peak export season")
        ELSE IF mc = Chars("Onion")
        THEN <<"U+2022">> \o Chars(" Malaysia, Sri Lanka, UAE ") \o <<"U+2014">> \o Chars(" Apr") \o <<"U+2013">> \o Chars("Jul when domestic prices are high")
        ELSE IF mc = Chars("Rice")
        THEN <<"U+2022">> \o Chars(" Middle East, Africa, SE Asia ") \o <<"U+2014">> \o Chars(" India is world's largest rice exporter")
        ELSE IF mc = Chars("Cotton")
        THEN <<"U+2022">> \o Chars(" Bangladesh, China for textile ") \o <<"U+2014">> \o Chars(" premium for long staple quality")
        ELSE <<"U+2022">> \o Chars(" Check APEDA portal (apeda.gov.in) for your crop's export potential"))
  \o Chars("\n\nRegister on APEDA (Agricultural and Processed Food Products Export Authority) at apeda.gov.in to connect with exporters.")

\* App.js 264-264
Template_sowing(rawMsg, mc, cm, ct) ==
     <<"U+D83C", "U+DF31">> \o Chars(" **Sowing Guide ") \o <<"U+2014">> \o Chars(" ")
  \o mc
  \o Chars("**\n\nSeason: ")
  \o cm.season
  \o Chars(" | Best sowing time varies by region.\n\nGeneral steps:\n1. Soil preparation: Deep plowing + 2") \o <<"U+2013">> \o Chars("3 harrowings\n2. Seed treatment: Use certified seeds, treat with fungicide\n3. Spacing & depth: As per variety recommendation\n4. Basal fertilizer: Apply DAP at sowing\n\n") \o <<"U+D83D", "U+DCDE">> \o Chars(" Contact your Krishi Vigyan Kendra (KVK) for region-specific sowing schedule and variety recommendations for ")
  \o mc
  \o Chars(".")

\* App.js 267-271
Template_harvest(rawMsg, mc, cm, ct) ==
     <<"U+D83C", "U+DF3E">> \o Chars(" **Harvest Time ") \o <<"U+2014">> \o Chars(" ")
  \o mc
  \o Chars("**\n\nTypical harvest window: **")
  \o cm.harvest
  \o Chars("**\nSeason: ")
  \o cm.season
  \o Chars("\n\nSigns of maturity for ")
  \o mc
  \o Chars(":\n")
  \o (IF mc = Chars("Wheat")
        THEN <<"U+2022">> \o Chars(" Golden yellow color, grains hard & dry, moisture 14") \o <<"U+2013">> \o Chars("16%")
        ELSE IF mc = Chars("Rice")
        THEN <<"U+2022">> \o Chars(" 80% grains golden yellow, moisture 20") \o <<"U+2013">> \o Chars("25% at harvest")
        ELSE IF mc = Chars("Tomato")
        THEN <<"U+2022">> \o Chars(" Red color, firm texture ") \o <<"U+2014">> \o Chars(" harvest every 3") \o <<"U+2013">> \o Chars("4 days")
        ELSE IF mc = Chars("Onion")
        THEN <<"U+2022">> \o Chars(" Neck fall (70% plants), tops dry and fall naturally")
        ELSE <<"U+2022">> \o Chars(" Check crop-specific maturity indicators with your KVK"))
  \o Chars("\n\n") \o <<"U+23F0">> \o Chars(" Harvest at the right time to avoid quality loss and price drop.")

\* App.js 274-281
Template_variety(rawMsg, mc, cm, ct) ==
     <<"U+D83C", "U+DF31">> \o Chars(" **Best Varieties ") \o <<"U+2014">> \o Chars(" ")
  \o mc
  \o Chars("**\n\nTop recommended varieties for ")
  \o mc
  \o Chars(":\n")
  \o (IF mc = Chars("Wheat")
        THEN <<"U+2022">> \o Chars(" HD-2967, HD-3086, GW-322, DBW-187 (disease resistant)")
        ELSE IF mc = Chars("Rice")
        THEN <<"U+2022">> \o Chars(" Swarna, MTU-1010, Pusa Basmati 1121, BPT-5204")
        ELSE IF mc = Chars("Tomato")
        THEN <<"U+2022">> \o Chars(" Arka Vikas, Pusa Ruby, Solan Vajra, hybrid varieties")
        ELSE IF mc = Chars("Onion")
        THEN <<"U+2022">> \o Chars(" Bhima Super, Agrifound Light Red, Phule Safed")
        ELSE IF mc = Chars("Potato")
        THEN <<"U+2022">> \o Chars(" Kufri Jyoti, Kufri Pukhraj, Kufri Chipsona")
        ELSE IF mc = Chars("Maize")
        THEN <<"U+2022">> \o Chars(" DHM-117, Vivek QPM-9, DKC-9144 (hybrid)")
        ELSE <<"U+2022">> \o Chars(" Contact your state agriculture department or KVK for region-specific variety recommendations"))
  \o Chars("\n\nAlways buy **certified seeds** from government-registered dealers.")

\* App.js 284-284
Template_transport(rawMsg, mc, cm, ct) ==
     <<"U+D83D", "U+DE9B">> \o Chars(" **Transport & Logistics for ")
  \o mc
  \o Chars("**\n\nTips to reduce transport costs:\n") \o <<"U+2022">> \o Chars(" Join or form an FPO to aggregate produce and share transport\n") \o <<"U+2022">> \o Chars(" Sell on eNAM (enam.gov.in) ") \o <<"U+2014">> \o Chars(" buyers can bid from anywhere, reducing your need to travel\n") \o <<"U+2022">> \o Chars(" Harvest at the right time to avoid emergency transport\n") \o <<"U+2022">> \o Chars(" Use government-subsidized transport schemes in your state\n\nFor perishables like ")
  \o (IF mc = Chars("Tomato") \/ mc = Chars("Onion")
        THEN Chars("Tomato/Onion")
        ELSE Chars("this crop"))
  \o Chars(", pre-cool before transport to reduce losses.")

\* mutant: the question embedded in lower case
Template_general_LowerCase(rawMsg, mc, cm, ct) ==
     <<"U+D83C", "U+DF3E">> \o Chars(" **AgroVueAI ") \o <<"U+2014">> \o Chars(" ")
  \o mc
  \o Chars(" Answer**\n\nYour question: \"")
  \o ToLowerCase(rawMsg)
  \o Chars("\"\n\n")
  \o ct
  \o Chars("\n\nRelevant info for ")
  \o mc
  \o Chars(":\n") \o <<"U+2022">> \o Chars(" Season: ")
  \o cm.season
  \o Chars(" | Harvest: ")
  \o cm.harvest
  \o Chars("\n") \o <<"U+2022">> \o Chars(" Approx price: ") \o <<"U+20B9">>
  \o NumToStr(cm.base)
  \o Chars("/qtl\n\n") \o <<"U+D83D", "U+DCDE">> \o Chars(" For expert advice specific to your question:\n") \o <<"U+2022">> \o Chars(" Kisan Call Centre: 1800-180-1551 (Toll Free, 24x7)\n") \o <<"U+2022">> \o Chars(" eNAM portal: enam.gov.in\n") \o <<"U+2022">> \o Chars(" Nearest Krishi Vigyan Kendra (KVK)")
\* App.js 288-288
Template_general(rawMsg, mc, cm, ct) ==
     <<"U+D83C", "U+DF3E">> \o Chars(" **AgroVueAI ") \o <<"U+2014">> \o Chars(" ")
  \o mc
  \o Chars(" Answer**\n\nYour question: \"")
  \o rawMsg
  \o Chars("\"\n\n")
  \o ct
  \o Chars("\n\nRelevant info for ")
  \o mc
  \o Chars(":\n") \o <<"U+2022">> \o Chars(" Season: ")
  \o cm.season
  \o Chars(" | Harvest: ")
  \o cm.harvest
  \o Chars("\n") \o <<"U+2022">> \o Chars(" Approx price: ") \o <<"U+20B9">>
  \o NumToStr(cm.base)
  \o Chars("/qtl\n\n") \o <<"U+D83D", "U+DCDE">> \o Chars(" For expert advice specific to your question:\n") \o <<"U+2022">> \o Chars(" Kisan Call Centre: 1800-180-1551 (Toll Free, 24x7)\n") \o <<"U+2022">> \o Chars(" eNAM portal: enam.gov.in\n") \o <<"U+2022">> \o Chars(" Nearest Krishi Vigyan Kendra (KVK)")
\* lines 220-289: the switch on intent
Render(it, rawMsg, mc, cm, ct) ==
  CASE it = "price"      -> Template_price(rawMsg, mc, cm, ct)
    [] it = "sell"       -> Template_sell(rawMsg, mc, cm, ct)
    [] it = "msp"        -> Template_msp(rawMsg, mc, cm, ct)
    [] it = "storage"    -> Template_storage(rawMsg, mc, cm, ct)
    [] it = "weather"    -> Template_weather(rawMsg, mc, cm, ct)
    [] it = "profit"     -> Template_profit(rawMsg, mc, cm, ct)
    [] it = "disease"    -> Template_disease(rawMsg, mc, cm, ct)
    [] it = "fertilizer" -> Template_fertilizer(rawMsg, mc, cm, ct)
    [] it = "water"      -> Template_water(rawMsg, mc, cm, ct)
    [] it = "loan"       -> Template_loan(rawMsg, mc, cm, ct)
    [] it = "export"     -> Template_export(rawMsg, mc, cm, ct)
    [] it = "sowing"     -> Template_sowing(rawMsg, mc, cm, ct)
    [] it = "harvest"    -> Template_harvest(rawMsg, mc, cm, ct)
    [] it = "variety"    -> Template_variety(rawMsg, mc, cm, ct)
    [] it = "transport"  -> Template_transport(rawMsg, mc, cm, ct)
    [] OTHER             -> Template_general(rawMsg, mc, cm, ct)

\* mutant: the metadata of the selected crop (m of line 173) used for cm
ResolvedMeta_Selected(mc, c) == MetaOr(c, DefaultMeta)

\* line 217: cm = CROP_META[mentionedCrop] || m, with m of line 173
ResolvedMeta(mc, c) == MetaOr(mc, MetaOr(c, DefaultMeta))

\* line 218: ct = CROP_TIPS[mentionedCrop] || tip, with tip of line 174
ResolvedTip(mc, c) == TipOr(mc, TipOr(c, <<>>))

(***************************************************************************)
(* Inputs.                                                                 *)
(***************************************************************************)
\* words a question is put together from
Words ==
  { Chars("Price?"), Chars("msp"), Chars("kab"), Chars("katna"), Chars("loan"),
    Chars("selling"), Chars("wheat"), Chars("Onion,"), Chars("potato"),
    <<"U+092D", "U+093E", "U+0935", "U+0964">> }

RECURSIVE Join(_)
Join(ws) ==
  IF ws = <<>> THEN <<>>
  ELSE IF Len(ws) = 1 THEN ws[1]
  ELSE ws[1] \o <<" ">> \o Join(Tail(ws))

Phrases == UNION {{Join(ws) : ws \in [1..n -> Words]} : n \in 0..MaxWords}

\* every keyword literal asked alone
KeywordQuestions == UNION {{Keywords[i][k] : k \in 1..Len(Keywords[i])} : i \in Intents}

ScenarioQuestions ==
  { Chars("What is the MSP for wheat and how do I register?"),
    Chars("kab beche onion"),
    Chars("Tomato price?"),
    Chars("tomato price"),
    Chars("compare wheat and rice prices"),
    Chars("hello"),
    Chars("  Kab\tbeche ,, ONION!  "),
    Chars("Hello") \o <<"U+00A0">> \o Chars("\n There ") }

Questions == Phrases \cup KeywordQuestions \cup ScenarioQuestions

\* questions whose variants in case and punctuation are compared
EditQuestions ==
  { Chars("Tomato price?"), Chars("tomato price"), Chars("how much"),
    Chars("Kab beche, onion!"), Chars("MSP"), Chars("hello"),
    <<"U+092D", "U+093E", "U+0935", "U+0964">> }

\* the crops the UI can select, and one name without a table entry
SelectedCrops == {CROPS[i] : i \in 1..Len(CROPS)} \cup {Chars("Bajra")}

(***************************************************************************)
(* The state machine.                                                      *)
(***************************************************************************)
\* names without an entry in the crop tables
UnknownCrops == {Chars("Bajra")} \cup InheritedKeys

NoIntent == "none"

\* the values the locals of a call take
TypeOK ==
  /\ pc \in {"idle", "done", "rest"}
  /\ msg \in Questions \cup EditQuestions
  /\ crop \in SelectedCrops \cup UnknownCrops
  /\ scores \in [Intents -> Nat]
  /\ intent \in Intents \cup {"general", NoIntent}
  /\ pc = "done" => intent # NoIntent

Init ==
  /\ msg \in Questions
  /\ crop \in SelectedCrops
  /\ pc = "idle"
  /\ q = <<>>
  /\ scores = [i \in Intents |-> 0]
  /\ intent = NoIntent
  /\ mentionedCrop = <<>>
  /\ reply = <<>>
  /\ AIRest
  /\ ChatRest
  /\ VoiceRest
  /\ StoreRest
  /\ SessionRest

\* getLocalFallback(msg, crop), lines 168-290
GetLocalFallback ==
  /\ pc = "idle"
  /\ LET qq == Normalize(msg)
         sc == Scores(qq)
         it == Classify(sc)
         mc == MentionedCrop(qq, crop)
     IN /\ q' = qq
        /\ scores' = sc
        /\ intent' = it
        /\ mentionedCrop' = mc
        /\ reply' = Render(it, msg, mc, ResolvedMeta(mc, crop), ResolvedTip(mc, crop))
  /\ pc' = "done"
  /\ UNCHANGED <<msg, crop, aiVars, chatVars, voiceVars, storeVars, sessionVars>>

Next == GetLocalFallback

\* getLocalFallback is not called on its own
FallbackRest ==
  /\ msg = <<>>
  /\ pc = "rest"
  /\ q = <<>>
  /\ scores = [i \in Intents |-> 0]
  /\ intent = NoIntent
  /\ mentionedCrop = <<>>
  /\ reply = <<>>

Spec == Init /\ [][Next]_vars

(***************************************************************************)
(* Properties of getLocalFallback.                                         *)
(***************************************************************************)
Done == pc = "done"

\* the <<intent, index>> pairs of the keyword literals that occur in s
Matched(s) ==
  {ik \in UNION {{<<i, k>> : k \in 1..Len(Keywords[i])} : i \in Intents} :
     Includes(s, Keywords[ik[1]][ik[2]])}

IntentPos(i) == CHOOSE n \in 1..Len(IntentOrder) : IntentOrder[n] = i

\* the indices of the crop names that occur in s
CropsNamed(s) == {i \in 1..Len(CROPS) : Includes(s, ToLowerCase(CROPS[i]))}

\* the first position at which t occurs in s
FirstOccurrence(s, t) ==
  CHOOSE i \in 1..Len(s) :
     /\ SubSeq(s, i, i + Len(t) - 1) = t
     /\ \A j \in 1..(i - 1) : SubSeq(s, j, j + Len(t) - 1) # t

\* C1: a question in which no keyword literal of any intent occurs (the empty
\* question included) scores 0 for every intent and is classified "general".
C1_NoKeywordIsGeneral ==
  (Done /\ Matched(q) = {}) =>
     /\ \A i \in Intents : scores[i] = 0
     /\ intent = "general"

C1_Witness == Done /\ Matched(q) = {} /\ q # <<>> /\ intent = "general"

\* C2: a question in which exactly one keyword literal occurs, a literal of
\* intent X, is classified X.
C2_SingleKeyword ==
  Done => LET hit == Matched(q)
          IN \A ik \in hit : hit = {ik} => intent = ik[1]

C2_Witness == Done /\ Cardinality(Matched(q)) = 1 /\ intent = "msp"

\* C3: the classification is an intent of maximum score ("general" only when
\* every score is 0); when literals of exactly two intents occur, the intent
\* with more matched literals is returned.
C3_MaximumScore ==
  Done =>
     /\ intent = "general" => \A i \in Intents : scores[i] = 0
     /\ intent # "general" =>
           /\ intent \in Intents
           /\ \A i \in Intents : scores[i] <= scores[intent]
     /\ LET hit == Matched(q)
        IN \A a, b \in {ik[1] : ik \in hit} :
              ( /\ {ik[1] : ik \in hit} = {a, b}
                /\ Cardinality({ik \in hit : ik[1] = a})
                     > Cardinality({ik \in hit : ik[1] = b}) )
              => intent = a

\* two intents match, and the winner is not the one first in the enumeration
C3_Witness ==
  /\ Done
  /\ \E a, b \in Intents :
        /\ scores[a] > scores[b] /\ scores[b] > 0
        /\ \A i \in Intents \ {a, b} : scores[i] = 0
        /\ IntentPos(a) > IntentPos(b)
        /\ intent = a

\* C4: when several intents tie for the maximum non-zero score, the
\* classification is the tied intent that is first in the enumeration order
\* price, sell, msp, ..., transport.
C4_TieBreakFirst ==
  (Done /\ intent # "general") =>
     \A i \in Intents :
        scores[i] = scores[intent] => IntentPos(intent) <= IntentPos(i)

\* a tie between two intents neither of which is the first of the enumeration
C4_Witness ==
  /\ Done
  /\ intent = "sell"
  /\ scores["harvest"] = scores["sell"]
  /\ scores["price"] < scores["sell"]

\* C6: the score of an intent is the number of its literals that occur in the
\* normalized question, each counted once however often it occurs; it lies
\* between 0 and the length of the intent's list.
C6_PresenceScore ==
  Done =>
     /\ q = Normalize(msg)
     /\ LET hit == Matched(q)
        IN \A i \in Intents :
              /\ scores[i] = Cardinality({ik \in hit : ik[1] = i})
              /\ scores[i] \in 0..Len(Keywords[i])

\* a literal that occurs twice in the question counts once
C6_Witness ==
  /\ Done
  /\ q = Chars("kab kab")
  /\ scores["sell"] = 1

\* C7: when crop names occur in the normalized question, the resolved crop is
\* the one earliest in CROPS, and the answer is rendered with its table
\* entries, not with those of the selected crop.
C7_MentionedCropWins ==
  (Done /\ CropsNamed(q) # {}) =>
     \E i \in CropsNamed(q) :
        /\ \A j \in CropsNamed(q) : i <= j
        /\ mentionedCrop = CROPS[i]
        /\ reply = Render(intent, msg, CROPS[i], CROP_META[CROPS[i]], CROP_TIPS[CROPS[i]])

\* two crops are named, the later of CROPS first in the question, and the
\* selected crop is a third one
C7_Witness ==
  /\ Done
  /\ \E i, j \in CropsNamed(q) :
        /\ i < j
        /\ FirstOccurrence(q, ToLowerCase(CROPS[j])) < FirstOccurrence(q, ToLowerCase(CROPS[i]))
        /\ mentionedCrop = CROPS[i]
  /\ crop # mentionedCrop

\* C8: when no crop name occurs in the question, the resolved crop is the
\* selected crop, and the answer is rendered with its metadata and tip.
C8_SelectedCropKept ==
  (Done /\ CropsNamed(q) = {}) =>
     /\ mentionedCrop = crop
     /\ reply = Render(intent, msg, crop, MetaOr(crop, DefaultMeta), TipOr(crop, <<>>))

C8_Witness ==
  /\ Done
  /\ CropsNamed(q) = {}
  /\ q # <<>>
  /\ mentionedCrop = Chars("Potato")

\* the harvest window of the resolved crop
HarvestOf(c) == IF c \in DOMAIN CROP_META THEN CROP_META[c].harvest ELSE Chars("varies")

\* C9: the answer contains the resolved crop's name, for every intent.
C9_ReplyNamesCrop == Done => Includes(reply, mentionedCrop)

HarvestIntents == {"price", "sell", "profit", "harvest", "general"}

C15_AnswerAboutNamedCrop ==
  (Done /\ CropsNamed(q) # {} /\ ~Includes(q, ToLowerCase(crop))) =>
     /\ mentionedCrop # crop
     /\ Includes(reply, mentionedCrop)
     /\ ~Includes(reply, crop)

\* C16: the answer of the "general" intent embeds the question as the caller
\* passed it, not normalized; for the empty question, the empty string.
C16_GeneralEmbedsQuestion ==
  (Done /\ intent = "general") =>
     Includes(reply, Chars("Your question: \"") \o msg \o Chars("\"\n"))

\* a general question that normalization changes
C16_Witness ==
  /\ Done
  /\ intent = "general"
  /\ msg # <<>>
  /\ q # msg
  /\ ~Includes(reply, Chars("Your question: \"") \o q \o Chars("\"\n"))

\* C17: the normalized question has no upper-case letter, no character of
\* [?।!,], no two adjacent white-space characters and no white space at its
\* start or end; the empty question is normalized to the empty string.
C17_NormalForm ==
  Done =>
     /\ \A i \in 1..Len(q) :
           /\ \A u \in 1..Len(UpperCaseLetters) : q[i] # UpperCaseLetters[u]
           /\ q[i] \notin PunctuationClass
           /\ i > 1 => ~(q[i] \in WhiteSpace /\ q[i-1] \in WhiteSpace)
     /\ q # <<>> => (q[1] \notin WhiteSpace /\ q[Len(q)] \notin WhiteSpace)
     /\ msg = <<>> => q = <<>>

\* a question with upper case, punctuation, a tab, repeated and outer spaces
C17_Witness ==
  /\ Done
  /\ msg = Chars("  Kab\tbeche ,, ONION!  ")
  /\ q = Chars("kab beche onion")

\* the generic irrigation text of the water template
GenericWaterText == Chars("Moderate ") \o <<"U+2014">> \o Chars(" check soil moisture before irrigating")

\* the storage premium text and the text for the other crops
PremiumText == Chars("Best for 25") \o <<"U+2013">> \o Chars("40% price premium")

HoldingText == Chars("Best for short-term holding")

\* the crops of the crop list whose water answer is not the generic text
WaterSpecificCrops ==
  {i \in 1..Len(CROPS) :
     ~Includes(Render("water", <<>>, CROPS[i], CROP_META[CROPS[i]], CROP_TIPS[CROPS[i]]),
               GenericWaterText)}

\* the storage part of C23
StoragePremiumForPotatoOnion ==
  (Done /\ intent = "storage") =>
     /\ Includes(reply, PremiumText) <=> mentionedCrop \in {Chars("Potato"), Chars("Onion")}
     /\ Includes(reply, HoldingText) <=> mentionedCrop \notin {Chars("Potato"), Chars("Onion")}

\* C23 as stated: the water answer is crop-specific for five crops and
\* generic for every other crop; the storage answer has the premium text
\* exactly for Potato and Onion and "short-term holding" for every other crop.
C23_FiveWaterCrops ==
  /\ (Done /\ intent = "water") =>
        /\ Cardinality(WaterSpecificCrops) = 5
        /\ Includes(reply, GenericWaterText) <=>
              \A i \in WaterSpecificCrops : mentionedCrop # CROPS[i]
  /\ StoragePremiumForPotatoOnion

\* the crops with a water text of their own
WaterCrops == {Chars("Rice"), Chars("Sugarcane"), Chars("Wheat"), Chars("Tomato")}

\* C23 amended: the water answer is crop-specific for the four crops Rice,
\* Sugarcane, Wheat and Tomato and generic for every other crop; the storage
\* part is as stated.
C23_FourWaterCrops ==
  /\ (Done /\ intent = "water") =>
        /\ Includes(reply, GenericWaterText) <=> mentionedCrop \notin WaterCrops
        /\ mentionedCrop = Chars("Rice") => Includes(reply, Chars("2000 mm (flood or SRI method)"))
        /\ mentionedCrop = Chars("Sugarcane") => Includes(reply, Chars("irrigate every 10"))
        /\ mentionedCrop = Chars("Wheat") => Includes(reply, Chars("6 irrigations (CRI, tillering, jointing, grain fill)"))
        /\ mentionedCrop = Chars("Tomato") => Includes(reply, Chars("drip irrigation saves 40% water"))
  /\ StoragePremiumForPotatoOnion

\* a water answer for Wheat
C23_Witness ==
  /\ Done
  /\ intent = "water"
  /\ mentionedCrop = Chars("Wheat")
  /\ ~Includes(reply, GenericWaterText)

\* the intents whose keyword list declares the literal s
DeclaringIntents(s) == {i \in Intents : \E k \in 1..Len(Keywords[i]) : Keywords[i][k] = s}

\* C24: a keyword literal asked alone as the whole question is classified to
\* an intent whose list declares it.
C24_KeywordAloneClassified ==
  (Done /\ DeclaringIntents(msg) # {}) => intent \in DeclaringIntents(msg)

\* the words of s: its maximal substrings without a space
WordsOf(s) ==
  {SubSeq(s, i, j) : <<i, j>> \in
     {ij \in (1..Len(s)) \X (1..Len(s)) :
        /\ ij[1] <= ij[2]
        /\ \A n \in ij[1]..ij[2] : s[n] # " "
        /\ ij[1] = 1 \/ s[ij[1] - 1] = " "
        /\ ij[2] = Len(s) \/ s[ij[2] + 1] = " "}}

\* C25: when no word of the normalized question is a crop name, the answer
\* is rendered for the selected crop.
C25_NoCropWordKeepsSelected ==
  (Done /\ \A i \in 1..Len(CROPS) : ToLowerCase(CROPS[i]) \notin WordsOf(q)) =>
     /\ mentionedCrop = crop
     /\ reply = Render(intent, msg, crop, MetaOr(crop, DefaultMeta), TipOr(crop, <<>>))

(***************************************************************************)
(* Calls with a selected crop that has no entry in the crop tables.        *)
(***************************************************************************)
InitUnknownCrop ==
  /\ msg \in Questions
  /\ crop \in UnknownCrops
  /\ pc = "idle"
  /\ q = <<>>
  /\ scores = [i \in Intents |-> 0]
  /\ intent = NoIntent
  /\ mentionedCrop = <<>>
  /\ reply = <<>>
  /\ AIRest
  /\ ChatRest
  /\ VoiceRest
  /\ StoreRest
  /\ SessionRest

SpecUnknownCrop == InitUnknownCrop /\ [][Next]_vars

\* C14: for a selected crop without an entry in the crop tables and a
\* question that names no known crop, the answer is rendered for the selected
\* crop from the default record and the empty tip.
C14_DefaultRecord ==
  (Done /\ crop \notin DOMAIN CROP_META /\ CropsNamed(q) = {}) =>
     reply = Render(intent, msg, crop, DefaultMeta, <<>>)

(***************************************************************************)
(* Questions that differ in letter case or in punctuation.                 *)
(***************************************************************************)
InitEdit ==
  /\ msg \in EditQuestions
  /\ crop \in SelectedCrops
  /\ pc = "idle"
  /\ q = <<>>
  /\ scores = [i \in Intents |-> 0]
  /\ intent = NoIntent
  /\ mentionedCrop = <<>>
  /\ reply = <<>>
  /\ AIRest
  /\ ChatRest
  /\ VoiceRest
  /\ StoreRest
  /\ SessionRest

SpecEdit == InitEdit /\ [][Next]_vars

\* the letter in the other case
ToggleCase(c) ==
  IF \E i \in 1..Len(UpperCaseLetters) : UpperCaseLetters[i] = c
  THEN LowerCaseLetters[CHOOSE i \in 1..Len(UpperCaseLetters) : UpperCaseLetters[i] = c]
  ELSE IF \E i \in 1..Len(LowerCaseLetters) : LowerCaseLetters[i] = c
       THEN UpperCaseLetters[CHOOSE i \in 1..Len(LowerCaseLetters) : LowerCaseLetters[i] = c]
       ELSE c

\* s with the case of one letter, or of every letter, changed
CaseVariants(s) ==
  {[s EXCEPT ![i] = ToggleCase(s[i])] : i \in 1..Len(s)}
    \cup {[i \in 1..Len(s) |-> ToggleCase(s[i])]}

InsertAt(s, i, c) == SubSeq(s, 1, i) \o <<c>> \o SubSeq(s, i + 1, Len(s))

DeleteAt(s, i) == SubSeq(s, 1, i - 1) \o SubSeq(s, i + 1, Len(s))

\* a code unit that separates words once the question is normalized
Separator(c) == c \in PunctuationClass \cup WhiteSpace

\* position i of s is the start or the end of s or holds a separator
Edge(s, i) == i < 1 \/ i > Len(s) \/ Separator(s[i])

\* s with one punctuation character more or less
PunctuationVariants(s) ==
  {InsertAt(s, i, c) : i \in 0..Len(s), c \in PunctuationClass}
    \cup {DeleteAt(s, i) : i \in {j \in 1..Len(s) : s[j] \in PunctuationClass}}

\* the same, the character not standing between two characters of a word
EdgePunctuationVariants(s) ==
  UNION {{InsertAt(s, i, c) : c \in PunctuationClass} :
           i \in {j \in 0..Len(s) : Edge(s, j) \/ Edge(s, j + 1)}}
    \cup {DeleteAt(s, i) : i \in {j \in 1..Len(s) :
             s[j] \in PunctuationClass /\ (Edge(s, j - 1) \/ Edge(s, j + 1))}}

\* classify(normalize(s))
ClassOf(s) == Classify(Scores(Normalize(s)))

\* C5 as claimed: a question that differs from msg only in letter case or in
\* the presence of a character of [?।!,] is classified as msg is.
C5_CaseAndPunctuationInvariant ==
  Done => \A v \in CaseVariants(msg) \cup PunctuationVariants(msg) : ClassOf(v) = intent

\* C5 amended: a question that differs from msg only in letter case, or in the
\* presence of a character of [?।!,] that does not stand directly between two
\* characters that are neither white space nor of [?।!,], is classified as
\* msg is.
C5_CaseAndEdgePunctuationInvariant ==
  Done => \A v \in CaseVariants(msg) \cup EdgePunctuationVariants(msg) : ClassOf(v) = intent

C5_Witness ==
  /\ Done
  /\ msg = Chars("Tomato price?")
  /\ Chars("tomato price") \in EdgePunctuationVariants(Chars("tomato price?"))
  /\ Chars("tomato price?") \in CaseVariants(msg)
  /\ intent = "price"

(***************************************************************************)
(* getAIReply: the remote advisor with the local fallback, lines 96-163.   *)
(***************************************************************************)
\* the longest conversation history explored
MaxHistory == 2

\* getLocalFallback(m, c) as a function of its arguments, lines 168-290
LocalFallback(m, c) ==
  LET qq == Normalize(m)
      mc == MentionedCrop(qq, c)
  IN Render(Classify(Scores(qq)), m, mc, ResolvedMeta(mc, c), ResolvedTip(mc, c))

\* lines 97, 110-112: cropInfo = CROP_META[crop] || {}, each field || "N/A"
CropInfoOrNA(c) ==
  IF c \in DOMAIN CROP_META
  THEN [season |-> CROP_META[c].season, harvest |-> CROP_META[c].harvest,
        base |-> NumToStr(CROP_META[c].base)]
  ELSE [season |-> Chars("N/A"), harvest |-> Chars("N/A"), base |-> Chars("N/A")]

\* lines 100-123: the template literal systemPrompt
SystemPrompt(c) ==
     Chars("You are AgroVueAI, an expert agricultural advisor for Indian farmers. You have deep knowledge of:\n")
  \o Chars("- Indian crop markets (Mandi prices, APMC, eNAM, AgMarkNet data)\n")
  \o Chars("- MSP (Minimum Support Price) schemes, PM-KISAN, PMFBY crop insurance\n")
  \o Chars("- Seasonal price trends for crops: Wheat, Rice, Maize, Tomato, Onion, Potato, Soybean, Cotton, Sugarcane, Chilli\n")
  \o Chars("- Cold storage strategies, FPO (Farmer Producer Organizations)\n")
  \o Chars("- Weather impact on Indian agriculture (monsoon, rabi/kharif seasons)\n")
  \o Chars("- Export markets for Indian agricultural produce\n")
  \o Chars("\n")
  \o Chars("Currently selected crop context:\n")
  \o Chars("- Crop: ")
  \o c
  \o Chars("\n")
  \o Chars("- Season: ")
  \o CropInfoOrNA(c).season
  \o Chars("\n")
  \o Chars("- Typical harvest: ")
  \o CropInfoOrNA(c).harvest
  \o Chars("\n")
  \o Chars("- Approx base price: ") \o <<"U+20B9">>
  \o CropInfoOrNA(c).base
  \o Chars("/quintal\n")
  \o Chars("- Key insight: ")
  \o TipOr(c, <<>>)
  \o Chars("\n")
  \o Chars("\n")
  \o Chars("IMPORTANT RULES:\n")
  \o Chars("1. Answer ONLY what the farmer is asking. Be direct and specific to their question.\n")
  \o Chars("2. Do not give generic advice unrelated to the question.\n")
  \o Chars("3. Use Indian units: quintal (qtl), rupees (") \o <<"U+20B9">> \o Chars("), acres.\n")
  \o Chars("4. Keep responses concise ") \o <<"U+2014">> \o Chars(" 3 to 6 lines max unless detailed explanation is needed.\n")
  \o Chars("5. Use relevant emojis naturally (") \o <<"U+D83C", "U+DF3E">> \o Chars(" ") \o <<"U+D83D", "U+DCB0">> \o Chars(" ") \o <<"U+D83D", "U+DCE6">> \o Chars(" ") \o <<"U+D83C", "U+DF26", "U+FE0F">> \o Chars(" ") \o <<"U+D83D", "U+DCC8">> \o Chars(" etc.).\n")
  \o Chars("6. If the question is about a specific crop, answer about that crop specifically.\n")
  \o Chars("7. Respond in the same language the farmer uses (Hindi/English/mixed).\n")
  \o Chars("8. Never make up prices ") \o <<"U+2014">> \o Chars(" if you don't know current live price, say it's an estimate and advise checking local mandi or eNAM portal.")

\* line 131
FullPrompt(m, c) == SystemPrompt(c) \o Chars("\n\n---\nFarmer's question: ") \o m

\* mutant: every prior turn sent with the role user
HistoryMessages_AllUser(h) ==
  [i \in 1..Len(h) |-> [role |-> "user", content |-> h[i].text]]

\* lines 126-129
HistoryMessages(h) ==
  [i \in 1..Len(h) |->
     [role |-> IF h[i].role = "ai" THEN "assistant" ELSE "user", content |-> h[i].text]]

\* lines 133-135
Messages(h, m, c) ==
  IF Len(HistoryMessages(h)) > 0
  THEN Append(HistoryMessages(h), [role |-> "user", content |-> m])
  ELSE <<[role |-> "user", content |-> FullPrompt(m, c)]>>

\* The values JSON.parse yields, tagged by their type.  An object is a record
\* of its own keys.  Unparseable stands for a body on which response.json()
\* rejects.
JNull == [t |-> "null"]
JStr(x) == [t |-> "string", s |-> x]
JNum(n) == [t |-> "number", n |-> n]
JArr(a) == [t |-> "array", a |-> a]
JObj(o) == [t |-> "object", o |-> o]
Unparseable == [t |-> "unparseable"]

\* v is an object with own key k
HasKey(v, k) == v.t = "object" /\ k \in DOMAIN v.o

\* line 156: data.content?.map(b => b.text || "") throws a TypeError when data
\* is null, when content is neither null nor undefined and has no map method,
\* and when a block is null
ContentThrows(data) ==
  \/ data.t = "null"
  \/ /\ HasKey(data, "content")
     /\ LET c == data.o.content
        IN \/ c.t \in {"string", "number", "object"}
           \/ c.t = "array" /\ \E i \in 1..Len(c.a) : c.a[i].t = "null"

\* line 156: b.text || "" as join("") prints it
BlockText(b) ==
  IF HasKey(b, "text")
  THEN LET x == b.o.text
       IN CASE x.t = "string" -> x.s
            [] x.t = "number" -> IF x.n = 0 THEN <<>> ELSE NumToStr(x.n)
            [] x.t = "object" -> Chars("[object Object]")
            [] x.t = "null"   -> <<>>
  ELSE <<>>

\* Array.prototype.join("") of the block texts
RECURSIVE JoinTexts(_)
JoinTexts(blocks) ==
  IF blocks = <<>> THEN <<>>
  ELSE BlockText(Head(blocks)) \o JoinTexts(Tail(blocks))

\* line 156: data.content?.map(...).join("") || "", when nothing throws
ContentText(data) ==
  IF HasKey(data, "content") /\ data.o.content.t = "array"
  THEN JoinTexts(data.o.content.a)
  ELSE <<>>

\* line 157
EmptyReplyMessage == Chars("Sorry, I could not get a response. Please try again.")

\* mutant: the text returned without trim
ReplyText_Untrimmed(data) ==
  IF ContentText(data) = <<>> THEN EmptyReplyMessage ELSE ContentText(data)

\* lines 156-157: text.trim() || "Sorry, ..."
ReplyText(data) ==
  LET text == Trim(ContentText(data))
  IN IF text = <<>> THEN EmptyReplyMessage ELSE text

\* mutant: the catch block returning the text of the error
CatchOutcome_ErrorText(e, m, c) == [state |-> "resolved", value |-> Chars("Error: ") \o e]

\* mutant: the catch block throwing the error again
CatchOutcome_Rethrow(e, m, c) == [state |-> "rejected", value |-> e]

\* lines 158-162: the catch block returns getLocalFallback(userMessage, crop)
CatchOutcome(e, m, c) == [state |-> "resolved", value |-> LocalFallback(m, c)]

\* response.ok
Ok(r) == r.status >= 200 /\ r.status <= 299

\* the inputs of the explored calls
AIQuestions == {<<>>, Chars("Tomato price?"), Chars("hello")}

AICrops == {Chars("Wheat"), Chars("Onion"), Chars("Bajra")}

HistoryTurns ==
  { [role |-> "user", text |-> Chars("kab beche")],
    [role |-> "ai", text |-> Chars("Sell in March.")],
    [role |-> "note", text |-> Chars("msp")] }

Histories == UNION {[1..n -> HistoryTurns] : n \in 0..MaxHistory}

\* HTTP statuses the endpoint answers with
Statuses == {200, 201, 400, 500}

TextBlock(x) == JObj([type |-> JStr(Chars("text")), text |-> JStr(x)])

\* response bodies: no JSON, JSON of another shape, and message objects
Bodies ==
  << Unparseable,
     JNull,
     JStr(Chars("ok")),
     JObj([type |-> JStr(Chars("error"))]),
     JObj([content |-> JNull]),
     JObj([content |-> JStr(Chars("Sell in March."))]),
     JObj([content |-> JArr(<<>>)]),
     JObj([content |-> JArr(<<JNull>>)]),
     JObj([content |-> JArr(<<TextBlock(Chars(" \n"))>>)]),
     JObj([content |-> JArr(<<TextBlock(Chars("  Sell in March.\n"))>>)]),
     JObj([content |-> JArr(<<TextBlock(Chars("Hold ")),
                              JObj([type |-> JStr(Chars("tool_use"))]),
                              JObj([text |-> JNum(3)]),
                              TextBlock(Chars(" weeks"))>>)]) >>

InitAI ==
  /\ FallbackRest
  /\ crop \in AICrops
  /\ userMessage \in AIQuestions
  /\ conversationHistory \in Histories
  /\ aiPc = "start"
  /\ messages = <<>>
  /\ response = NoResponse
  /\ err = <<>>
  /\ aiResult = Pending
  /\ ChatRest
  /\ VoiceRest
  /\ StoreRest
  /\ SessionRest

\* lines 126-147: the message list is built and the request is sent
CallFetch ==
  /\ aiPc = "start"
  /\ messages' = Messages(conversationHistory, userMessage, crop)
  /\ aiPc' = "fetch"
  /\ UNCHANGED <<fallbackVars, chatVars, voiceVars, storeVars, sessionVars, crop, userMessage, conversationHistory, response, err, aiResult>>

\* line 138: the promise of fetch rejects (no network)
FetchRejects ==
  /\ aiPc = "fetch"
  /\ err' = Chars("Failed to fetch")
  /\ aiPc' = "catch"
  /\ UNCHANGED <<fallbackVars, chatVars, voiceVars, storeVars, sessionVars, crop, userMessage, conversationHistory, messages, response, aiResult>>

\* line 138: the promise of fetch resolves to a response
FetchResolves ==
  /\ aiPc = "fetch"
  /\ \E st \in Statuses, i \in 1..Len(Bodies) :
        response' = [status |-> st, body |-> Bodies[i]]
  /\ aiPc' = "response"
  /\ UNCHANGED <<fallbackVars, chatVars, voiceVars, storeVars, sessionVars, crop, userMessage, conversationHistory, messages, err, aiResult>>

\* lines 149-153: the status is not a success status; a failure to read the
\* error body is swallowed by .catch(() => ({}))
ResponseNotOk ==
  /\ aiPc = "response"
  /\ ~Ok(response)
  /\ err' = Chars("API returned ") \o NumToStr(response.status)
  /\ aiPc' = "catch"
  /\ UNCHANGED <<fallbackVars, chatVars, voiceVars, storeVars, sessionVars, crop, userMessage, conversationHistory, messages, response, aiResult>>

\* line 155: response.json() rejects
JsonRejects ==
  /\ aiPc = "response"
  /\ Ok(response)
  /\ response.body.t = "unparseable"
  /\ err' = Chars("Unexpected end of JSON input")
  /\ aiPc' = "catch"
  /\ UNCHANGED <<fallbackVars, chatVars, voiceVars, storeVars, sessionVars, crop, userMessage, conversationHistory, messages, response, aiResult>>

\* lines 155-157: response.json() resolves to data; the text is read from it
\* and returned, or reading it throws
ReadReply ==
  /\ aiPc = "response"
  /\ Ok(response)
  /\ response.body.t # "unparseable"
  /\ IF ContentThrows(response.body)
     THEN /\ err' = Chars("TypeError")
          /\ aiPc' = "catch"
          /\ UNCHANGED aiResult
     ELSE /\ aiResult' = [state |-> "resolved", value |-> ReplyText(response.body)]
          /\ aiPc' = "returned"
          /\ UNCHANGED err
  /\ UNCHANGED <<fallbackVars, chatVars, voiceVars, storeVars, sessionVars, crop, userMessage, conversationHistory, messages, response>>

\* lines 158-162
Catch ==
  /\ aiPc = "catch"
  /\ aiResult' = CatchOutcome(err, userMessage, crop)
  /\ aiPc' = "returned"
  /\ UNCHANGED <<fallbackVars, chatVars, voiceVars, storeVars, sessionVars, crop, userMessage, conversationHistory, messages, response, err>>

NextAI ==
  \/ CallFetch
  \/ FetchRejects
  \/ FetchResolves
  \/ ResponseNotOk
  \/ JsonRejects
  \/ ReadReply
  \/ Catch

SpecAI == InitAI /\ [][NextAI]_vars

(***************************************************************************)
(* Properties of getAIReply.                                               *)
(***************************************************************************)
Returned == aiPc = "returned"

\* the remote call failed: fetch rejected, or the status is not a success
\* status, or the body is not JSON
RemoteFailed ==
  \/ response.status = 0
  \/ ~Ok(response)
  \/ response.body.t = "unparseable"

\* C11: when the remote call fails (fetch rejects, status not a success
\* status, body not parseable), getAIReply resolves to exactly the string of
\* getLocalFallback(question, crop), which does not hold the error text.
C11_FailureGivesFallback ==
  (Returned /\ RemoteFailed) =>
     /\ aiResult = [state |-> "resolved", value |-> LocalFallback(userMessage, crop)]
     /\ ~Includes(aiResult.value, err)

\* a call that returned after the endpoint answered with status 500
C11_Witness ==
  /\ Returned
  /\ response.status = 500
  /\ err = Chars("API returned 500")
  /\ aiResult.state = "resolved"

\* what the claim says getAIReply returns after a success
ReturnsRemoteText ==
  /\ err = <<>>
  /\ aiResult.state = "resolved"
  /\ LET text == Trim(ContentText(response.body))
     IN aiResult.value = IF text = <<>> THEN EmptyReplyMessage ELSE text

MessageObject(data) ==
  /\ data.t = "object"
  /\ "content" \in DOMAIN data.o =>
        \/ data.o.content.t = "null"
        \/ /\ data.o.content.t = "array"
           /\ \A i \in 1..Len(data.o.content.a) : data.o.content.a[i].t = "object"

C13_NeverRejects ==
  /\ aiResult.state # "rejected"
  /\ Returned => (aiResult.state = "resolved" /\ Len(aiResult.value) > 0)

\* a call that resolved after reading the reply threw
C13_Witness ==
  /\ Returned
  /\ Ok(response)
  /\ err = Chars("TypeError")
  /\ aiResult.state = "resolved"

\* the request has been sent
Sent == aiPc \in {"fetch", "response", "catch", "returned"}

\* the role a prior turn is sent with
SentRole(r) == IF r = "ai" THEN "assistant" ELSE "user"

\* the first Len(conversationHistory) messages are the prior turns in order
PriorTurnsInOrder ==
  /\ Len(messages) = Len(conversationHistory) + 1
  /\ \A i \in 1..Len(conversationHistory) :
        /\ messages[i].role = SentRole(conversationHistory[i].role)
        /\ messages[i].content = conversationHistory[i].text

\* C22 as stated: the message list of a request is the prior turns in order
\* followed by a last message of role user whose content is exactly the new
\* question.
C22_TurnsThenQuestion ==
  Sent =>
     /\ PriorTurnsInOrder
     /\ messages[Len(messages)] = [role |-> "user", content |-> userMessage]

\* C22 amended: with prior turns the list is those turns in order followed by
\* the question as a user message; without prior turns it is one user message
\* whose content is the system prompt, a separator and then the question.
C22_TurnsThenQuestionOrPrompt ==
  Sent =>
     /\ PriorTurnsInOrder
     /\ messages[Len(messages)].role = "user"
     /\ conversationHistory # <<>> => messages[Len(messages)].content = userMessage
     /\ conversationHistory = <<>> =>
           /\ messages[1].content =
                SystemPrompt(crop) \o Chars("\n\n---\nFarmer's question: ") \o userMessage
           /\ messages[1].content # userMessage

\* a request with an assistant turn and a turn of another role before the question
C22_Witness ==
  /\ Sent
  /\ Len(conversationHistory) = 2
  /\ conversationHistory[1].role = "ai"
  /\ conversationHistory[2].role = "note"
  /\ messages[1].role = "assistant"
  /\ messages[3].content = userMessage

(***************************************************************************)
(* AIAdvisor: the text chat, lines 565-607.  The component stays mounted,  *)
(* the store works, and a write to the store takes effect when save is     *)
(* called.  getAIReply does not reject, so the catch block of send (lines  *)
(* 595-597) is not entered.                                                *)
(***************************************************************************)
\* the most calls of send explored
MaxSends == 2

\* user.name
UserName == Chars("Ravi")

\* line 565: the text of the welcome message
Welcome(name) ==
     Chars("Namaste ")
  \o name
  \o Chars("! ") \o <<"U+D83D", "U+DE4F">> \o Chars(" I'm your AgroVue Advisor.\n\nAsk me about crop prices, best time to sell, MSP schemes, weather impact, cold storage, or profitability. How can I help you today?")

\* line 565
DEFAULT_CHAT(name) == <<[role |-> "ai", text |-> Welcome(name)]>>

\* what the user sends: two questions and a blank input
ChatInputs == {Chars("kab beche"), Chars("msp?"), Chars("  ")}

\* what getAIReply resolves to
ReplyTexts == {Chars("Sell in March.")}

\* a stored conversation of n question and reply pairs after the welcome
RECURSIVE Pairs(_)
Pairs(n) ==
  IF n = 0 THEN <<>>
  ELSE Pairs(n - 1) \o
         << [role |-> "user", text |-> Chars("loan")],
            [role |-> "ai", text |-> Chars("Sell in March.")] >>

\* what the store holds when the component mounts: nothing, a short
\* conversation, and one longer than the 10 messages sent as context
StoredChats ==
  { <<>>,
    DEFAULT_CHAT(UserName) \o Pairs(1),
    DEFAULT_CHAT(UserName) \o Pairs(5) }

\* Array.prototype.slice(-n)
LastN(a, n) == IF Len(a) <= n THEN a ELSE SubSeq(a, Len(a) - n + 1, Len(a))

\* Array.prototype.slice(0, -1)
ButLast(a) == SubSeq(a, 1, Len(a) - 1)

\* mutant: the welcome message not removed
HistoryForAPI_WithWelcome(updated) == LastN(updated, 10)

\* line 590: updated.slice(1).slice(-10)
HistoryForAPI(updated) == LastN(SubSeq(updated, 2, Len(updated)), 10)

InitChat ==
  /\ FallbackRest
  /\ crop = CROPS[1]
  /\ AIRest
  /\ VoiceRest
  /\ StoreRest
  /\ SessionRest
  /\ chatLoaded = FALSE
  /\ msgs = <<>>
  /\ stored \in StoredChats
  /\ typing = FALSE
  /\ sends = <<>>

\* lines 575-579: the stored chat is loaded
ChatLoaded ==
  /\ ~chatLoaded
  /\ chatLoaded' = TRUE
  /\ msgs' = IF stored = <<>> THEN DEFAULT_CHAT(UserName) ELSE stored
  /\ UNCHANGED <<fallbackVars, crop, aiVars, voiceVars, storeVars, sessionVars, stored, typing, sends>>

\* line 592: reply = [...updated, {role: "ai", text: replyText}]
ReplyList(updated, r) == Append(updated, [role |-> "ai", text |-> r])

\* lines 581-584: send(m) up to its first await; the input is enabled once
\* the chat is loaded
Send ==
  /\ chatLoaded
  /\ Len(sends) < MaxSends
  /\ \E m \in ChatInputs :
       IF Trim(m) = <<>>
       THEN UNCHANGED <<msgs, stored, sends>>
       ELSE LET updated == Append(msgs, [role |-> "user", text |-> m])
            IN /\ msgs' = updated
               /\ stored' = updated
               /\ sends' = Append(sends, [pc |-> "save", msg |-> m, updated |-> updated, history |-> <<>>])
  /\ UNCHANGED <<fallbackVars, crop, aiVars, voiceVars, storeVars, sessionVars, chatLoaded, typing>>

\* lines 585-591: save has returned; getAIReply is called with the history
SendAsks ==
  /\ \E i \in 1..Len(sends) :
       /\ sends[i].pc = "save"
       /\ sends' = [sends EXCEPT ![i].pc = "ask",
                                 ![i].history = ButLast(HistoryForAPI(sends[i].updated))]
  /\ typing' = TRUE
  /\ UNCHANGED <<fallbackVars, crop, aiVars, voiceVars, storeVars, sessionVars, chatLoaded, msgs, stored>>

\* lines 591-594: the reply of getAIReply arrives
ReplyArrives ==
  /\ \E i \in 1..Len(sends), r \in ReplyTexts :
       /\ sends[i].pc = "ask"
       /\ msgs' = ReplyList(sends[i].updated, r)
       /\ stored' = ReplyList(sends[i].updated, r)
       /\ sends' = [sends EXCEPT ![i].pc = "saveReply"]
  /\ UNCHANGED <<fallbackVars, crop, aiVars, voiceVars, storeVars, sessionVars, chatLoaded, typing>>

\* lines 594-600: the second save has returned; finally
SendFinishes ==
  /\ \E i \in 1..Len(sends) :
       /\ sends[i].pc = "saveReply"
       /\ sends' = [sends EXCEPT ![i].pc = "done"]
  /\ typing' = FALSE
  /\ UNCHANGED <<fallbackVars, crop, aiVars, voiceVars, storeVars, sessionVars, chatLoaded, msgs, stored>>

\* lines 603-607
ClearChat ==
  /\ chatLoaded
  /\ msgs' = DEFAULT_CHAT(UserName)
  /\ stored' = DEFAULT_CHAT(UserName)
  /\ UNCHANGED <<fallbackVars, crop, aiVars, voiceVars, storeVars, sessionVars, chatLoaded, typing, sends>>

NextChat ==
  \/ ChatLoaded
  \/ Send
  \/ SendAsks
  \/ ReplyArrives
  \/ SendFinishes
  \/ ClearChat

SpecChat == InitChat /\ [][NextChat]_vars

(***************************************************************************)
(* Properties of the text chat.                                            *)
(***************************************************************************)
\* a is an initial segment of b
IsPrefix(a, b) == Len(a) <= Len(b) /\ SubSeq(b, 1, Len(a)) = a

\* C20: except in a step of clearChat, a message once appended keeps its
\* position in the displayed conversation and in the stored chat log: every
\* step extends both lists at their end.
C20_AppendOnly ==
  [][ClearChat \/ (IsPrefix(msgs, msgs') /\ IsPrefix(stored, stored'))]_vars

\* the calls of send that have called getAIReply
Asked == {i \in 1..Len(sends) : sends[i].pc \in {"ask", "saveReply", "done"}}

\* the message list getAIReply sends for call i
Request(i) == Messages(sends[i].history, sends[i].msg, crop)

\* a ends with b
EndsWith(a, b) == Len(b) <= Len(a) /\ SubSeq(a, Len(a) - Len(b) + 1, Len(a)) = b

\* C26: for a conversation with n messages after the welcome message, the new
\* question included, the request carries min(10, n) messages, none of them
\* the welcome message, and the last is the user message with the new
\* question.
C26_LastTenWithoutWelcome ==
  \A i \in Asked :
     LET n == Len(sends[i].updated) - 1
         m == Request(i)
     IN /\ Len(m) = IF n < 10 THEN n ELSE 10
        /\ \A k \in 1..Len(m) : m[k].content # Welcome(UserName)
        /\ m[Len(m)].role = "user"
        /\ EndsWith(m[Len(m)].content, sends[i].msg)
        /\ n > 1 => m[Len(m)].content = sends[i].msg

\* a request of a conversation with more than 10 messages after the welcome
C26_Witness ==
  \E i \in Asked :
     /\ Len(sends[i].updated) - 1 > 10
     /\ Len(Request(i)) = 10
     /\ sends[i].updated[1].text = Welcome(UserName)

\* C27: every message list sent by the text chat begins with a message of
\* role user.
C27_FirstMessageIsUser == \A i \in Asked : Request(i)[1].role = "user"

\* the conversation that holds the welcome message only
Fresh == DEFAULT_CHAT(UserName)

\* C28: once the displayed conversation and the stored log hold only the
\* welcome message, as after clearChat, they stay so in every step that is
\* not a new send.
C28_ClearedUntilSend ==
  [][(msgs = Fresh /\ stored = Fresh /\ ~Send) => (msgs' = Fresh /\ stored' = Fresh)]_vars

(***************************************************************************)
(* VoiceAssistant, lines 664-765.  The browser supports SpeechRecognition  *)
(* and speechSynthesis, and the component stays mounted.  getAIReply does  *)
(* not reject, so the catch block of processQuestion (lines 711-713) is    *)
(* not entered.                                                            *)
(*                                                                         *)
(* A SpeechRecognition object is "starting" after start(), "started" after *)
(* its start event, "stopping" after stop() (it may still deliver the      *)
(* result of the audio captured so far), "finishing" after its final       *)
(* result (continuous is false), and "ended" after its end event.  An      *)
(* error event is followed by the end event and is delivered only before a *)
(* final result.                                                           *)
(***************************************************************************)
\* the most SpeechRecognition objects explored
MaxRecognizers == 3

InterimText == Chars("kab")

FinalText == Chars("kab beche")

\* what getAIReply resolves to in the voice path
VoiceReplyText == Chars("Sell in March.")

\* line 736
MicError == <<"U+26A0", "U+FE0F">> \o Chars(" Mic error: no-speech. Please allow microphone access.")

\* recognRef.current?.stop()
StopCurrent(rs) ==
  IF rs # <<>> /\ rs[Len(rs)] \in {"starting", "started"}
  THEN [rs EXCEPT ![Len(rs)] = "stopping"]
  ELSE rs

InitVoice ==
  /\ FallbackRest
  /\ crop = CROPS[1]
  /\ AIRest
  /\ ChatRest
  /\ VoiceRest
  /\ StoreRest
  /\ SessionRest

\* lines 719-757; the button calls it in phase "idle" (line 792)
StartListening ==
  /\ phase = "idle"
  /\ Len(recognizers) < MaxRecognizers
  /\ error' = <<>>
  /\ transcript' = <<>>
  /\ voiceResponse' = <<>>
  /\ processingRef' = FALSE
  /\ recognizers' = Append(recognizers, "starting")
  /\ UNCHANGED <<fallbackVars, crop, aiVars, chatVars, storeVars, sessionVars, phase, pendingVoice, speaking>>

\* lines 759-763; the button calls it in every other phase (line 792)
StopListening ==
  /\ phase # "idle"
  /\ recognizers' = StopCurrent(recognizers)
  /\ phase' = IF phase \in {"listening", "speaking"} THEN "idle" ELSE phase
  /\ speaking' = IF phase = "speaking" THEN FALSE ELSE speaking
  /\ UNCHANGED <<fallbackVars, crop, aiVars, chatVars, storeVars, sessionVars, transcript, voiceResponse, error, processingRef, pendingVoice>>

\* line 735: recog.onstart
RecogOnStart ==
  /\ \E i \in 1..Len(recognizers) :
       /\ recognizers[i] = "starting"
       /\ recognizers' = [recognizers EXCEPT ![i] = "started"]
  /\ phase' = "listening"
  /\ UNCHANGED <<fallbackVars, crop, aiVars, chatVars, storeVars, sessionVars, transcript, voiceResponse, error, processingRef, pendingVoice, speaking>>

\* line 736: recog.onerror
RecogOnError ==
  /\ \E i \in 1..Len(recognizers) :
       /\ recognizers[i] \in {"starting", "started", "stopping"}
       /\ recognizers' = [recognizers EXCEPT ![i] = "ended"]
  /\ phase' = "idle"
  /\ error' = MicError
  /\ UNCHANGED <<fallbackVars, crop, aiVars, chatVars, storeVars, sessionVars, transcript, voiceResponse, processingRef, pendingVoice, speaking>>

\* line 737: recog.onend
RecogOnEnd ==
  /\ \E i \in 1..Len(recognizers) :
       /\ recognizers[i] \in {"started", "stopping", "finishing"}
       /\ recognizers' = [recognizers EXCEPT ![i] = "ended"]
  /\ UNCHANGED <<fallbackVars, crop, aiVars, chatVars, storeVars, sessionVars, phase, transcript, voiceResponse, error, processingRef, pendingVoice, speaking>>

\* lines 739-743: recog.onresult with a last result that is not final
RecogOnInterimResult ==
  /\ \E i \in 1..Len(recognizers) : recognizers[i] = "started"
  /\ transcript' = InterimText
  /\ UNCHANGED <<fallbackVars, crop, aiVars, chatVars, storeVars, sessionVars, phase, voiceResponse, error, recognizers, processingRef, pendingVoice, speaking>>

\* line 702: if (processingRef.current) return
Blocked(flag) == flag

\* lines 739-753 with a final last result, and processQuestion (lines
\* 701-707) up to its await
RecogOnFinalResult ==
  /\ \E i \in 1..Len(recognizers) :
       /\ recognizers[i] \in {"started", "stopping"}
       /\ recognizers' = StopCurrent([recognizers EXCEPT ![i] = "finishing"])
  /\ transcript' = FinalText
  /\ IF Blocked(processingRef)
     THEN UNCHANGED <<processingRef, phase, pendingVoice>>
     ELSE /\ processingRef' = TRUE
          /\ phase' = "processing"
          /\ pendingVoice' = pendingVoice + 1
  /\ UNCHANGED <<fallbackVars, crop, aiVars, chatVars, storeVars, sessionVars, voiceResponse, error, speaking>>

\* mutant: processQuestion without the finally block
FlagAfterSettle_Kept(flag) == flag

\* lines 714-716: finally { processingRef.current = false }
FlagAfterSettle(flag) == FALSE

\* lines 707-710 and 714-716: the reply of getAIReply arrives; speak (lines
\* 684-699) cancels what is spoken and speaks the reply
VoiceReplyArrives ==
  /\ pendingVoice > 0
  /\ pendingVoice' = pendingVoice - 1
  /\ voiceResponse' = VoiceReplyText
  /\ phase' = "speaking"
  /\ speaking' = TRUE
  /\ processingRef' = FlagAfterSettle(processingRef)
  /\ UNCHANGED <<fallbackVars, crop, aiVars, chatVars, storeVars, sessionVars, transcript, error, recognizers>>

\* line 697: utt.onend
UttOnEnd ==
  /\ speaking
  /\ speaking' = FALSE
  /\ phase' = "idle"
  /\ UNCHANGED <<fallbackVars, crop, aiVars, chatVars, storeVars, sessionVars, transcript, voiceResponse, error, recognizers, processingRef, pendingVoice>>

NextVoice ==
  \/ StartListening
  \/ StopListening
  \/ RecogOnStart
  \/ RecogOnError
  \/ RecogOnEnd
  \/ RecogOnInterimResult
  \/ RecogOnFinalResult
  \/ VoiceReplyArrives
  \/ UttOnEnd

SpecVoice == InitVoice /\ [][NextVoice]_vars

(***************************************************************************)
(* Properties of the voice path.                                           *)
(***************************************************************************)
\* C19: at most one call of getAIReply by processQuestion is pending at any
\* time.
C19_AtMostOnePending == pendingVoice <= 1

\* C30: processingRef is set only while a call of getAIReply by
\* processQuestion is pending, and a final transcript that arrives when no
\* call is pending is processed: it starts a call.
C30_FlagOnlyWhilePending ==
  /\ [](processingRef => pendingVoice > 0)
  /\ [][(pendingVoice = 0 /\ RecogOnFinalResult) => pendingVoice' = 1]_vars

\* a final transcript is being processed while the reply to an earlier one
\* is still spoken
C30_Witness ==
  /\ processingRef
  /\ pendingVoice = 1
  /\ phase = "processing"
  /\ speaking
  /\ transcript = FinalText

\* ---------------------------------------------------------------------
\* The persist helpers save and load over window.storage
\* ---------------------------------------------------------------------

\* the values the application saves: booleans and objects whose members
\* keep their insertion order, next to null, numbers, strings and arrays
JBool(b) == [t |-> "boolean", b |-> b]
JPairs(p) == [t |-> "pairs", p |-> p]
Member(k, v) == [k |-> Chars(k), v |-> v]

\* JSON.stringify of one code unit inside a string
EscapeUnit(c) ==
  IF c = "\"" THEN <<"\\", "\"">>
  ELSE IF c = "\\" THEN <<"\\", "\\">>
  ELSE IF c = "U+000A" THEN <<"\\", "n">>
  ELSE IF c = "U+0009" THEN <<"\\", "t">>
  ELSE IF c = "U+000D" THEN <<"\\", "r">>
  ELSE <<c>>

RECURSIVE EscapeUnits(_)
EscapeUnits(s) ==
  IF s = <<>> THEN <<>> ELSE EscapeUnit(Head(s)) \o EscapeUnits(Tail(s))

Quoted(s) == <<"\"">> \o EscapeUnits(s) \o <<"\"">>

RECURSIVE JSONstringify(_)
RECURSIVE StringifyElements(_)
RECURSIVE StringifyMembers(_)
\* JSON.stringify(val), line 19
JSONstringify(v) ==
  IF v.t = "null" THEN Chars("null")
  ELSE IF v.t = "boolean" THEN (IF v.b THEN Chars("true") ELSE Chars("false"))
  ELSE IF v.t = "number" THEN NumToStr(v.n)
  ELSE IF v.t = "string" THEN Quoted(v.s)
  ELSE IF v.t = "array" THEN <<"[">> \o StringifyElements(v.a) \o <<"]">>
  ELSE <<"{">> \o StringifyMembers(v.p) \o <<"}">>

StringifyElements(a) ==
  IF Len(a) = 0 THEN <<>>
  ELSE IF Len(a) = 1 THEN JSONstringify(a[1])
  ELSE JSONstringify(a[1]) \o <<",">> \o StringifyElements(Tail(a))

StringifyMembers(p) ==
  IF Len(p) = 0 THEN <<>>
  ELSE LET m == Quoted(p[1].k) \o <<":">> \o JSONstringify(p[1].v)
       IN  IF Len(p) = 1 THEN m ELSE m \o <<",">> \o StringifyMembers(Tail(p))

\* the results of the parser: a value and the text after it, or a SyntaxError
Fail == [ok |-> FALSE, v |-> JNull, rest |-> <<>>]
Got(v, rest) == [ok |-> TRUE, v |-> v, rest |-> rest]

Ws == {" ", "U+0009", "U+000A", "U+000D"}
DigitUnits == {"0", "1", "2", "3", "4", "5", "6", "7", "8", "9"}
DigitVal(c) == CHOOSE d \in 0..9 : Chars("0123456789")[d + 1] = c
Escapes == {"\"", "\\", "/", "n", "t", "r"}
Unescape(c) ==
  IF c = "n" THEN "U+000A"
  ELSE IF c = "t" THEN "U+0009"
  ELSE IF c = "r" THEN "U+000D"
  ELSE c

StartsWith(s, lit) == Len(s) >= Len(lit) /\ SubSeq(s, 1, Len(lit)) = lit
Drop(s, n) == SubSeq(s, n + 1, Len(s))

RECURSIVE SkipWs(_)
SkipWs(s) == IF Len(s) > 0 /\ Head(s) \in Ws THEN SkipWs(Tail(s)) ELSE s

RECURSIVE ParseDigits(_, _)
ParseDigits(s, acc) ==
  IF Len(s) > 0 /\ Head(s) \in DigitUnits
  THEN ParseDigits(Tail(s), acc * 10 + DigitVal(Head(s)))
  ELSE Got(JNum(acc), s)

\* a number without sign, fraction or exponent: the numbers the application saves
ParseNumber(s) ==
  IF Len(s) = 0 \/ Head(s) \notin DigitUnits THEN Fail
  ELSE IF Head(s) = "0" THEN Got(JNum(0), Tail(s))
  ELSE ParseDigits(s, 0)

RECURSIVE ParseChars(_, _)
\* the rest of a string after its opening quote
ParseChars(s, acc) ==
  IF Len(s) = 0 THEN Fail
  ELSE IF Head(s) = "\"" THEN Got(JStr(acc), Tail(s))
  ELSE IF Head(s) = "\\"
       THEN IF Len(s) >= 2 /\ s[2] \in Escapes
            THEN ParseChars(Drop(s, 2), Append(acc, Unescape(s[2])))
            ELSE Fail
  ELSE IF Head(s) \in {"U+0009", "U+000A", "U+000D"} THEN Fail
  ELSE ParseChars(Tail(s), Append(acc, Head(s)))

RECURSIVE ParseValue(_)
RECURSIVE ParseElements(_, _)
RECURSIVE ParseMembers(_, _)
ParseValue(s0) ==
  LET s == SkipWs(s0)
  IN  IF StartsWith(s, Chars("null")) THEN Got(JNull, Drop(s, 4))
      ELSE IF StartsWith(s, Chars("true")) THEN Got(JBool(TRUE), Drop(s, 4))
      ELSE IF StartsWith(s, Chars("false")) THEN Got(JBool(FALSE), Drop(s, 5))
      ELSE IF StartsWith(s, <<"\"">>) THEN ParseChars(Tail(s), <<>>)
      ELSE IF StartsWith(s, <<"[">>)
           THEN LET t == SkipWs(Tail(s))
                IN  IF StartsWith(t, <<"]">>) THEN Got(JArr(<<>>), Tail(t))
                    ELSE ParseElements(t, <<>>)
      ELSE IF StartsWith(s, <<"{">>)
           THEN LET t == SkipWs(Tail(s))
                IN  IF StartsWith(t, <<"}">>) THEN Got(JPairs(<<>>), Tail(t))
                    ELSE ParseMembers(t, <<>>)
      ELSE ParseNumber(s)

ParseElements(s, acc) ==
  LET e == ParseValue(s)
      t == SkipWs(e.rest)
  IN  IF ~e.ok THEN Fail
      ELSE IF StartsWith(t, <<",">>) THEN ParseElements(Tail(t), Append(acc, e.v))
      ELSE IF StartsWith(t, <<"]">>) THEN Got(JArr(Append(acc, e.v)), Tail(t))
      ELSE Fail

ParseMembers(s0, acc) ==
  LET s == SkipWs(s0)
      k == IF StartsWith(s, <<"\"">>) THEN ParseChars(Tail(s), <<>>) ELSE Fail
      c == SkipWs(k.rest)
      e == IF StartsWith(c, <<":">>) THEN ParseValue(Tail(c)) ELSE Fail
      t == SkipWs(e.rest)
      m == [k |-> k.v.s, v |-> e.v]
  IN  IF ~k.ok \/ ~e.ok THEN Fail
      ELSE IF StartsWith(t, <<",">>) THEN ParseMembers(Tail(t), Append(acc, m))
      ELSE IF StartsWith(t, <<"}">>) THEN Got(JPairs(Append(acc, m)), Tail(t))
      ELSE Fail

\* JSON.parse(result.value), line 28: the whole text is one value
JSONparse(text) ==
  LET r == ParseValue(text)
  IN  IF r.ok /\ SkipWs(r.rest) = <<>> THEN r ELSE Fail

\* save, lines 17-23: what the entry of the key becomes and how the
\* promise settles; a throwing set is caught and logged
save(entry, val, setThrows) ==
  IF setThrows
  THEN [settled |-> "resolved", entry |-> entry]
  ELSE [settled |-> "resolved",
        entry |-> [present |-> TRUE, value |-> JSONstringify(val)]]

\* load, lines 25-32: a throwing get and a SyntaxError of JSON.parse land
\* in the catch; a missing result takes the other arm of the conditional
load_NoCatch(entry, fallback, getThrows) ==
  IF getThrows THEN [settled |-> "rejected", value |-> fallback]
  ELSE IF ~entry.present THEN [settled |-> "resolved", value |-> fallback]
  ELSE LET p == JSONparse(entry.value)
       IN  IF p.ok THEN [settled |-> "resolved", value |-> p.v]
           ELSE [settled |-> "rejected", value |-> fallback]

load(entry, fallback, getThrows) ==
  IF getThrows THEN [settled |-> "resolved", value |-> fallback]
  ELSE IF ~entry.present THEN [settled |-> "resolved", value |-> fallback]
  ELSE LET p == JSONparse(entry.value)
       IN  IF p.ok THEN [settled |-> "resolved", value |-> p.v]
           ELSE [settled |-> "resolved", value |-> fallback]

\* a conversation as AIAdvisor saves it: quotes, a backslash and a line break
SavedChat ==
  JArr(<<JPairs(<<Member("role", JStr(Chars("ai"))),
                  Member("text", JStr(Chars("Namaste")))>>),
         JPairs(<<Member("role", JStr(Chars("user"))),
                  Member("text", JStr(Chars("say \"hi\" \\ ") \o <<"U+000A", "U+20B9">>
                                        \o Chars("1,2]}")))>>)>>)

\* values the application saves: thresholds (line 867), a session (line 1093),
\* a conversation (line 585), alerts (line 863), a profile (line 1231),
\* the first users table (line 1088)
SavedValues ==
  << JPairs(<<Member("rise", JNum(10)), Member("drop", JNum(8))>>),
     JPairs(<<Member("username", JStr(Chars("ravi"))), Member("loggedInAt", JNum(1700))>>),
     SavedChat,
     JArr(<<>>),
     JArr(<<JPairs(<<Member("id", JNum(1)), Member("read", JBool(FALSE))>>),
            JPairs(<<Member("id", JNum(3)), Member("read", JBool(TRUE))>>)>>),
     JPairs(<<Member("name", JStr(Chars("Ravi K"))), Member("district", JStr(<<>>))>>),
     JPairs(<<>>) >>

\* fallbacks the callers pass: null (line 576), thresholds (line 856), {} (line 1088)
Fallbacks ==
  << JNull,
     JPairs(<<Member("rise", JNum(10)), Member("drop", JNum(8))>>),
     JPairs(<<>>) >>

\* texts another writer can leave under a key; only the last is JSON
ForeignTexts ==
  { <<>>,
    Chars("undefined"),
    Chars("{\"rise\":10"),
    Chars("[1,]"),
    Chars("{'rise':10}"),
    Chars("\"say \"hi\"\""),
    Chars(" [ 1 , {\"a\" : null} ] ") }

InitStore ==
  /\ FallbackRest
  /\ crop = CROPS[1]
  /\ AIRest
  /\ ChatRest
  /\ VoiceRest
  /\ SessionRest
  /\ StoreRest

\* save(key, val), lines 17-23
Save ==
  \E key \in Keys, i \in 1..Len(SavedValues), setThrows \in BOOLEAN :
    LET r == save(kv[key], SavedValues[i], setThrows)
    IN  /\ kv' = [kv EXCEPT ![key] = r.entry]
        /\ storeOp' = [op |-> "save", key |-> key, val |-> SavedValues[i],
                       threw |-> setThrows, settled |-> r.settled]
        /\ UNCHANGED <<fallbackVars, crop, aiVars, chatVars, voiceVars, sessionVars>>

\* load(key, fallback), lines 25-32
Load ==
  \E key \in Keys, i \in 1..Len(Fallbacks), getThrows \in BOOLEAN :
    LET r == load(kv[key], Fallbacks[i], getThrows)
    IN  /\ storeOp' = [op |-> "load", key |-> key, fallback |-> Fallbacks[i],
                       threw |-> getThrows, found |-> kv[key],
                       settled |-> r.settled, value |-> r.value]
        /\ UNCHANGED <<fallbackVars, crop, aiVars, chatVars, voiceVars, sessionVars, kv>>

\* window.storage.delete(key), lines 952-956
Delete ==
  \E key \in Keys :
    /\ kv[key].present
    /\ kv' = [kv EXCEPT ![key] = NoEntry]
    /\ storeOp' = [op |-> "delete", key |-> key]
    /\ UNCHANGED <<fallbackVars, crop, aiVars, chatVars, voiceVars, sessionVars>>

\* the store is shared: something else writes under the key
ForeignWrite ==
  \E key \in Keys, text \in ForeignTexts :
    /\ kv' = [kv EXCEPT ![key] = [present |-> TRUE, value |-> text]]
    /\ storeOp' = [op |-> "foreign", key |-> key]
    /\ UNCHANGED <<fallbackVars, crop, aiVars, chatVars, voiceVars, sessionVars>>

NextStore == Save \/ Load \/ Delete \/ ForeignWrite

SpecStore == InitStore /\ [][NextStore]_vars

\* the last call was load(key, fallback)
Loaded == storeOp.op = "load"

\* the last call was save(key, val)
Saved == storeOp.op = "save"

\* C21: save and load always resolve; load returns the fallback when get
\* throws, when nothing is stored and when the stored text is not JSON; and
\* a load that follows a save of v under the same key, with a working
\* store, returns v.
C21_FailuresNeverPropagate ==
  /\ []((Loaded \/ Saved) => storeOp.settled = "resolved")
  /\ []((Loaded /\ (storeOp.threw \/ ~storeOp.found.present
                      \/ ~JSONparse(storeOp.found.value).ok))
          => storeOp.value = storeOp.fallback)
  /\ [][(/\ Saved /\ ~storeOp.threw
         /\ storeOp'.op = "load" /\ ~storeOp'.threw
         /\ storeOp'.key = storeOp.key)
          => storeOp'.value = storeOp.val]_vars

\* the conversation came back from the store as it was saved
C21_Witness ==
  /\ Loaded
  /\ ~storeOp.threw
  /\ storeOp.found.present
  /\ storeOp.found.value = JSONstringify(SavedChat)
  /\ storeOp.value = SavedChat
  /\ storeOp.fallback = JNull

\* ---------------------------------------------------------------------
\* Accounts, the session and the profile the App restores
\* ---------------------------------------------------------------------

\* DEFAULT_PROFILE, line 929: it has no username key
DEFAULT_PROFILE == [name |-> Chars("AgroVue"), district |-> Chars("Krishna"), username |-> NoUsername]

\* hashPass, line 1072: the salted password; the base64 encoding that
\* follows is one-to-one and is left out
hashPass(p) == p \o Chars("_agrovue_salt_2025")

\* the key of a typed username, lines 1089 and 1224
KeyOf(username) == ToLowerCase(Trim(username))

\* what the forms are filled with
TypedUsernames == {Chars("asha"), Chars(" Ravi "), Chars("ravi")}
TypedPasswords == {Chars("secret1"), Chars("secret2")}
TypedNames == {Chars("Asha"), Chars("Ravi")}
TypedDistricts == {<<>>, Chars("Guntur")}

InitSession ==
  /\ FallbackRest
  /\ crop = CROPS[1]
  /\ AIRest
  /\ ChatRest
  /\ VoiceRest
  /\ StoreRest
  /\ SessionRest

\* RegisterScreen.handleRegister, lines 1217-1238, with a form that
\* passes validate; onLogin is App.handleLogin, lines 1389-1392
Register ==
  \E username \in TypedUsernames, password \in TypedPasswords, name \in TypedNames :
    LET key == KeyOf(username)
        profile == [name |-> name, district |-> <<>>, username |-> key]
    IN  /\ ~loggedIn
        /\ ~users[key].registered
        /\ users' = [users EXCEPT ![key] = [registered |-> TRUE,
                                            passwordHash |-> hashPass(password),
                                            profile |-> profile]]
        /\ session' = [present |-> TRUE, username |-> key]
        /\ storedProfile' = [present |-> TRUE, value |-> profile]
        /\ user' = profile
        /\ loggedIn' = TRUE
        /\ UNCHANGED <<fallbackVars, crop, aiVars, chatVars, voiceVars, storeVars>>

\* LoginScreen.handleLogin, lines 1083-1099, and App.handleLogin
Login ==
  \E username \in TypedUsernames, password \in TypedPasswords :
    LET key == KeyOf(username)
    IN  /\ ~loggedIn
        /\ users[key].registered
        /\ users[key].passwordHash = hashPass(password)
        /\ session' = [present |-> TRUE, username |-> key]
        /\ user' = users[key].profile
        /\ loggedIn' = TRUE
        /\ UNCHANGED <<fallbackVars, crop, aiVars, chatVars, voiceVars, storeVars,
                       users, storedProfile>>

\* App.handleLogout, lines 1394-1399
Logout ==
  /\ loggedIn
  /\ session' = NoSession
  /\ loggedIn' = FALSE
  /\ user' = DEFAULT_USER
  /\ UNCHANGED <<fallbackVars, crop, aiVars, chatVars, voiceVars, storeVars,
                 users, storedProfile>>

\* the Profile tab: the form is loaded from "AgroVue_profile" (line 938),
\* a field is edited (line 1005) and handleSave runs (lines 941-947)
ProfileSave ==
  \E district \in TypedDistricts :
    LET loaded == IF storedProfile.present THEN storedProfile.value ELSE DEFAULT_PROFILE
        form == [loaded EXCEPT !.district = district]
    IN  /\ loggedIn
        /\ storedProfile' = [present |-> TRUE, value |-> form]
        /\ user' = form
        /\ UNCHANGED <<fallbackVars, crop, aiVars, chatVars, voiceVars, storeVars,
                       users, session, loggedIn>>

\* the mount effect of App, lines 1374-1387, on component state as
\* useState initialises it (lines 1369-1371)
Restored ==
  IF session.present /\ session.username # <<>>
  THEN IF storedProfile.present THEN storedProfile.value ELSE DEFAULT_USER
  ELSE DEFAULT_USER

\* the page is opened or reloaded
AppStart ==
  /\ user' = Restored
  /\ loggedIn' = (session.present /\ session.username # <<>>)
  /\ UNCHANGED <<fallbackVars, crop, aiVars, chatVars, voiceVars, storeVars,
                 users, session, storedProfile>>

\* Profile.clearAll, lines 949-962, confirmed: the profile and the
\* session are deleted, the users table is not, and the page reloads
ClearAll ==
  /\ loggedIn
  /\ storedProfile' = NoProfile
  /\ session' = NoSession
  /\ user' = DEFAULT_USER
  /\ loggedIn' = FALSE
  /\ UNCHANGED <<fallbackVars, crop, aiVars, chatVars, voiceVars, storeVars, users>>

NextSession == Register \/ Login \/ Logout \/ ProfileSave \/ AppStart \/ ClearAll

SpecSession == InitSession /\ [][NextSession]_vars

\* C29: when the App starts with a stored session for a username, the
\* profile it restores is the profile of that username.
C29_RestoresOwnProfile ==
  [][(AppStart /\ session.present) => user'.username = session.username]_vars

====
